---------------------------- MODULE Spec2Model ----------------------------
(***************************************************************************)
(* A model of n7tya-lang: the lexer, the recursive-descent parser, the     *)
(* type checker, the tree-walking interpreter and the markup renderer,     *)
(* and the run_file pipeline of the command line that chains them.         *)
(*                                                                         *)
(* Text is a sequence of one-character strings everywhere (source text,    *)
(* identifiers, Str values, rendered HTML), so that lexing, indexing and   *)
(* escaping work on characters as the code does.                           *)
(*                                                                         *)
(* The recursive functions of the code are RECURSIVE operators that take   *)
(* the interpreter (or parser) state and return the state they leave with  *)
(* their result; Rust's `?` is the early return of a non-Ok result.        *)
(***************************************************************************)
EXTENDS Integers, Sequences, FiniteSets, TLC

VARIABLES
    command,          \* "file" (run_file), "check" (check_file), "test" (run_tests),
                      \* "run" (Interpreter::run called on a program directly)
    phase,            \* where the command stands
    source,           \* run_file: the text read from the file
    tokens,           \* run_file: Lexer::tokenize's result
    parsed,           \* run_file: whether Parser::parse returned Ok (None before it ran)
    diagnostics,      \* run_file: TypeChecker::check's result
    program,          \* the Program handed to Interpreter::run
    pc,               \* Interpreter::run: index of the next item
    interp,           \* the Interpreter (environments, heap) and the process's stdout
    result,           \* Interpreter::run: the local `result`
    outcome,          \* what Interpreter::run returned (or how the process ended)
    overflow_checks,  \* the build profile: TRUE panics on integer overflow, FALSE wraps
    listener          \* Interpreter::run_server: its locals, its console and its wire

vars == <<command, phase, source, tokens, parsed, diagnostics, program, pc, interp,
          result, outcome, overflow_checks, listener>>

(***************************************************************************)
(* Bounds of the model.                                                    *)
(***************************************************************************)
\* Width of Value::Int and of usize in the model. The code's are 64 bits;
\* TLC's integers are 32 bits wide, so the model keeps the two's-complement
\* structure at a width TLC can compute with.
IntBits == 8
\* Loop iterations plus calls one run may spend before the model gives up
\* on it (the code would loop forever or overflow its stack).
MaxFuel == 8

Modulus == 2 ^ IntBits
IntMax == 2 ^ (IntBits - 1) - 1
IntMin == 0 - 2 ^ (IntBits - 1)

Min2(a, b) == IF a < b THEN a ELSE b

(***************************************************************************)
(* Option<T>: None is the empty sequence, Some(x) a sequence of one.       *)
(***************************************************************************)
NoneOpt == <<>>
Some(x) == <<x>>
IsSome(o) == Len(o) = 1

(***************************************************************************)
(* Value (interpreter.rs).  Float is not modelled; List, Dict and Class    *)
(* hold a reference into the heap (Rc<RefCell<..>>).                       *)
(***************************************************************************)
IntV(n) == [t |-> "Int", n |-> n]
StrV(s) == [t |-> "Str", s |-> s]
BoolV(b) == [t |-> "Bool", b |-> b]
NoneV == [t |-> "None"]
ListV(ref) == [t |-> "List", ref |-> ref]
DictV(ref) == [t |-> "Dict", ref |-> ref]
ClassV(name, ref) == [t |-> "Class", name |-> name, ref |-> ref]
FnV(func, env) == [t |-> "Fn", func |-> func, env |-> env]
BuiltinFnV(name) == [t |-> "BuiltinFn", name |-> name]

(***************************************************************************)
(* Results.  Result<Value, String> is Ok / Err; Panic is the process       *)
(* aborting (a Rust panic); Cut is the model running out of MaxFuel and    *)
(* Unmodelled a call of a part of the library the model leaves out.        *)
(* ExecutionResult is Value / Return / Break / Continue.                   *)
(***************************************************************************)
Ok(v) == [k |-> "Ok", v |-> v]
Err(msg) == [k |-> "Err", msg |-> msg, arg |-> <<>>]
ErrA(msg, arg) == [k |-> "Err", msg |-> msg, arg |-> arg]
Panic(msg) == [k |-> "Panic", msg |-> msg]
Cut == [k |-> "Cut"]
ExValue(v) == [k |-> "Value", v |-> v]
ExReturn(v) == [k |-> "Return", v |-> v]
ExBreak == [k |-> "Break"]
ExContinue == [k |-> "Continue"]
Failed(r) == r.k \in {"Err", "Panic", "Cut", "Unmodelled"}

\* What a function leaves and what it yields; err is Result::is_err and
\* failed the end of the run
R(st, r) == [st |-> st, r |-> r, err |-> r.k # "Ok", failed |-> Failed(r)]

(***************************************************************************)
(* Integer arithmetic at the model's width.                                *)
(***************************************************************************)
InRange(n) == IntMin <= n /\ n <= IntMax
Wrap(n) == ((n - IntMin) % Modulus) + IntMin
Abs(n) == IF n < 0 THEN 0 - n ELSE n
\* Rust's / and % truncate toward zero.
TruncDiv(a, b) ==
    LET q == Abs(a) \div Abs(b)
    IN  IF (a < 0) = (b < 0) THEN q ELSE 0 - q
TruncRem(a, b) == a - b * TruncDiv(a, b)
\* A faulty cast: the magnitude of i, where `as usize` takes its two's
\* complement.
AsUsize_abs(i) == Abs(i)

\* `i as usize`: a negative i64 becomes a huge unsigned number.
AsUsize(i) == IF i < 0 THEN i + Modulus ELSE i

\* +, -, * and unary - on i64: the exact result when it fits; otherwise a
\* panic in a build with overflow checks and the wrapped value without.
Arith(n) ==
    IF InRange(n) THEN Ok(IntV(n))
    ELSE IF overflow_checks THEN Panic("attempt to compute with overflow")
    ELSE Ok(IntV(Wrap(n)))

(***************************************************************************)
(* Text helpers.                                                           *)
(***************************************************************************)
DigitChars == <<"0", "1", "2", "3", "4", "5", "6", "7", "8", "9">>

RECURSIVE NatToString(_)
NatToString(n) ==
    IF n < 10 THEN <<DigitChars[n + 1]>>
    ELSE NatToString(n \div 10) \o <<DigitChars[(n % 10) + 1]>>

\* i64::to_string
IntToString(n) == IF n < 0 THEN <<"-">> \o NatToString(0 - n) ELSE NatToString(n)

RECURSIVE Join(_, _)
\* [String]::join
Join(strs, sep) ==
    IF Len(strs) = 0 THEN <<>>
    ELSE IF Len(strs) = 1 THEN strs[1]
    ELSE strs[1] \o sep \o Join(Tail(strs), sep)

(***************************************************************************)
(* Names the code spells out.                                              *)
(***************************************************************************)
\* Interpreter::new: the names registered as BuiltinFn in the root scope.
builtins == <<
    <<"p", "r", "i", "n", "t">>,
    <<"p", "r", "i", "n", "t", "l", "n">>,
    <<"l", "e", "n">>,
    <<"r", "a", "n", "g", "e">>,
    <<"i", "n", "p", "u", "t">>,
    <<"s", "t", "r">>,
    <<"i", "n", "t">>,
    <<"f", "l", "o", "a", "t">>,
    <<"t", "y", "p", "e">>,
    <<"a", "b", "s">>,
    <<"m", "i", "n">>,
    <<"m", "a", "x">>,
    <<"s", "u", "m">>,
    <<"s", "o", "r", "t", "e", "d">>,
    <<"r", "e", "v", "e", "r", "s", "e", "d">>,
    <<"e", "n", "u", "m", "e", "r", "a", "t", "e">>,
    <<"z", "i", "p">>,
    <<"f", "s", ".", "r", "e", "a", "d", "_", "f", "i", "l", "e">>,
    <<"f", "s", ".", "w", "r", "i", "t", "e", "_", "f", "i", "l", "e">>,
    <<"f", "s", ".", "e", "x", "i", "s", "t", "s">>,
    <<"f", "s", ".", "r", "e", "m", "o", "v", "e">>,
    <<"f", "s", ".", "r", "e", "a", "d", "_", "d", "i", "r">>,
    <<"j", "s", "o", "n", ".", "p", "a", "r", "s", "e">>,
    <<"j", "s", "o", "n", ".", "s", "t", "r", "i", "n", "g", "i", "f", "y">>,
    <<"h", "t", "t", "p", ".", "g", "e", "t">>,
    <<"h", "t", "t", "p", ".", "p", "o", "s", "t">> >>

T_print == <<"p", "r", "i", "n", "t">>
T_println == <<"p", "r", "i", "n", "t", "l", "n">>
T_len == <<"l", "e", "n">>
T_range == <<"r", "a", "n", "g", "e">>
T_str == <<"s", "t", "r">>
T_class_prefix == <<"_", "_", "c", "l", "a", "s", "s", "_">>
T_lambda == <<"l", "a", "m", "b", "d", "a">>
T_none == <<"n", "o", "n", "e">>
T_true == <<"t", "r", "u", "e">>
T_false == <<"f", "a", "l", "s", "e">>

IsPrefix(p, s) == Len(p) <= Len(s) /\ SubSeq(s, 1, Len(p)) = p

(***************************************************************************)
(* The interpreter's state: Interpreter.env and everything reachable from  *)
(* it, plus the process's standard output.                                 *)
(*   scopes[e]  an Env: its values and its parent (0: none)                *)
(*   lists[r]   the Vec behind a Value::List                               *)
(*   maps[r]    the HashMap behind a Value::Dict or Value::Class           *)
(*   trace      history: the statements eval_statement was entered for and *)
(*              the loop conditions and for-elements taken, in order       *)
(*   fuel       what is left of MaxFuel                                    *)
(***************************************************************************)
EmptyMap == [n \in {} |-> NoneV]

\* Env::new
Env_new == [values |-> EmptyMap, parent |-> 0]
\* Env::with_parent
Env_with_parent(parent) == [values |-> EmptyMap, parent |-> parent]

\* Env::define, on the scope e of the heap
Env_define(scopes, e, name, value) ==
    [scopes EXCEPT ![e].values = (name :> value) @@ @]

RECURSIVE Env_get(_, _, _)
\* Env::get: Option<Value>
Env_get(scopes, e, name) ==
    IF name \in DOMAIN scopes[e].values THEN Some(scopes[e].values[name])
    ELSE IF scopes[e].parent # 0 THEN Env_get(scopes, scopes[e].parent, name)
    ELSE NoneOpt

\* A faulty Env::set: a name bound in some scope of the chain is bound anew
\* in the scope the search starts from, whichever scope holds it.
Env_set_shadowing(scopes, e, name, value) ==
    IF IsSome(Env_get(scopes, e, name))
    THEN [ok |-> TRUE, scopes |-> Env_define(scopes, e, name, value)]
    ELSE [ok |-> FALSE, scopes |-> scopes]

RECURSIVE Env_set(_, _, _, _)
\* Env::set: the bool it returns and the heap it leaves
Env_set(scopes, e, name, value) ==
    IF name \in DOMAIN scopes[e].values
    THEN [ok |-> TRUE, scopes |-> [scopes EXCEPT ![e].values[name] = value]]
    ELSE IF scopes[e].parent # 0 THEN Env_set(scopes, scopes[e].parent, name, value)
    ELSE [ok |-> FALSE, scopes |-> scopes]

\* Interpreter::new
Interpreter_new ==
    [env |-> 1,
     scopes |-> <<[values |-> [n \in {builtins[i] : i \in DOMAIN builtins} |-> BuiltinFnV(n)],
                   parent |-> 0]>>,
     lists |-> <<>>,
     maps |-> <<>>,
     stdout |-> <<>>,
     trace |-> <<>>,
     fuel |-> MaxFuel]

Log(st, e, id) == [st EXCEPT !.trace = Append(@, [e |-> e, id |-> id])]

\* Rc::new(RefCell::new(vec)): the heap with the new Vec, and the reference
NewList(st, items) ==
    [st |-> [st EXCEPT !.lists = Append(@, items)], ref |-> Len(st.lists) + 1]
NewMap(st, m) ==
    [st |-> [st EXCEPT !.maps = Append(@, m)], ref |-> Len(st.maps) + 1]

RECURSIVE display(_, _)
RECURSIVE display_all(_, _)
\* Value::display (Dict, whose order is the HashMap's, is not modelled)
display(v, st) ==
    CASE v.t = "Int" -> IntToString(v.n)
      [] v.t = "Str" -> v.s
      [] v.t = "Bool" -> IF v.b THEN T_true ELSE T_false
      [] v.t = "List" -> <<"[">> \o Join(display_all(st.lists[v.ref], st), <<",", " ">>) \o <<"]">>
      [] v.t = "None" -> T_none
      [] v.t = "Fn" -> <<"<", "f", "n", " ">> \o v.func.name \o <<">">>
      [] v.t = "BuiltinFn" -> <<"<", "b", "u", "i", "l", "t", "i", "n", " ">> \o v.name \o <<">">>
      [] v.t = "Class" -> <<"<">> \o v.name \o <<" ", "i", "n", "s", "t", "a", "n", "c", "e", ">">>
      [] OTHER -> <<"{", "}">>
display_all(vs, st) ==
    IF Len(vs) = 0 THEN <<>> ELSE <<display(vs[1], st)>> \o display_all(Tail(vs), st)

\* Value::is_truthy
is_truthy(v, st) ==
    CASE v.t = "Bool" -> v.b
      [] v.t = "Int" -> v.n # 0
      [] v.t = "Str" -> Len(v.s) # 0
      [] v.t = "List" -> Len(st.lists[v.ref]) # 0
      [] v.t = "Dict" -> DOMAIN st.maps[v.ref] # {}
      [] v.t = "None" -> FALSE
      [] OTHER -> TRUE

(***************************************************************************)
(* The AST (ast.rs).  Every node is a record tagged by k.  A statement     *)
(* carries id, its position in the source (the index of its first token    *)
(* when the parser built it), which the interpreter's trace refers to.     *)
(***************************************************************************)
E_Int(n) == [k |-> "Literal", lit |-> [k |-> "Int", n |-> n]]
E_Str(s) == [k |-> "Literal", lit |-> [k |-> "Str", s |-> s]]
E_Bool(b) == [k |-> "Literal", lit |-> [k |-> "Bool", b |-> b]]
E_Float(s) == [k |-> "Literal", lit |-> [k |-> "Float", s |-> s]]
E_None == [k |-> "Literal", lit |-> [k |-> "None"]]
E_List(items) == [k |-> "Literal", lit |-> [k |-> "List", items |-> items]]
E_Id(name) == [k |-> "Identifier", name |-> name]
E_Bin(op, left, right) == [k |-> "BinaryOp", op |-> op, left |-> left, right |-> right]
E_Un(op, operand) == [k |-> "UnaryOp", op |-> op, operand |-> operand]
E_Call(func, args) == [k |-> "Call", func |-> func, args |-> args]
E_Member(object, member) == [k |-> "MemberAccess", object |-> object, member |-> member]
E_Index(object, index) == [k |-> "Index", object |-> object, index |-> index]
E_Lambda(params, body) == [k |-> "Lambda", params |-> params, body |-> body]
E_Jsx(element) == [k |-> "JsxElement", element |-> element]

S_LetT(id, name, type_annotation, value) ==
    [k |-> "Let", id |-> id, name |-> name, value |-> value,
     type_annotation |-> type_annotation]
S_Let(id, name, value) == S_LetT(id, name, NoneOpt, value)
S_Assign(id, target, value) == [k |-> "Assignment", id |-> id, target |-> target, value |-> value]
S_Return(id, value) == [k |-> "Return", id |-> id, value |-> value]
S_Expr(id, e) == [k |-> "Expression", id |-> id, e |-> e]
S_If(id, condition, then_block, else_block) ==
    [k |-> "If", id |-> id, condition |-> condition, then_block |-> then_block,
     else_block |-> else_block]
S_While(id, condition, body) == [k |-> "While", id |-> id, condition |-> condition, body |-> body]
S_For(id, target, iterator, body) ==
    [k |-> "For", id |-> id, target |-> target, iterator |-> iterator, body |-> body]
S_Match(id, value, cases) == [k |-> "Match", id |-> id, value |-> value, cases |-> cases]
S_Break(id) == [k |-> "Break", id |-> id]
S_Continue(id) == [k |-> "Continue", id |-> id]
S_Const(id, name, type_annotation, value) ==
    [k |-> "Const", id |-> id, name |-> name, type_annotation |-> type_annotation,
     value |-> value]
S_State(id, name, value) == [k |-> "State", id |-> id, name |-> name, value |-> value]
S_Render(id, body) == [k |-> "Render", id |-> id, body |-> body]

MatchCase(pattern, body) == [pattern |-> pattern, body |-> body]
P_Wildcard == [k |-> "Wildcard"]
P_Literal(lit) == [k |-> "Literal", lit |-> lit]
P_Identifier(name) == [k |-> "Identifier", name |-> name]

\* FunctionDef: params are the parameters' names and param_types their
\* annotations, position by position.
FunctionDefT(name, params, param_types, return_type, body) ==
    [name |-> name, params |-> params, param_types |-> param_types,
     return_type |-> return_type, body |-> body]
FunctionDef(name, params, body) ==
    FunctionDefT(name, params, [i \in DOMAIN params |-> NoneOpt], NoneOpt, body)
I_FunctionDef(f) == [k |-> "FunctionDef", f |-> f]
I_ClassDef(name) == [k |-> "ClassDef", name |-> name]
I_Import == [k |-> "Import"]
I_Statement(stmt) == [k |-> "Statement", stmt |-> stmt]

JsxElement(tag, attributes, children) ==
    [tag |-> tag, attributes |-> attributes, children |-> children]
JsxAttribute(name, value) == [name |-> name, value |-> value]
JsxText(text) == [k |-> "Text", text |-> text]
JsxChildElement(element) == [k |-> "Element", element |-> element]
JsxChildExpression(e) == [k |-> "Expression", e |-> e]

(***************************************************************************)
(* Interpreter: operators and builtins.                                    *)
(***************************************************************************)
\* Interpreter::values_equal
values_equal(a, b) ==
    CASE a.t = "Int" /\ b.t = "Int" -> a.n = b.n
      [] a.t = "Str" /\ b.t = "Str" -> a.s = b.s
      [] a.t = "Bool" /\ b.t = "Bool" -> a.b = b.b
      [] OTHER -> FALSE

\* str::contains
Contains(s, sub) ==
    \E i \in 0..(Len(s) - Len(sub)) : SubSeq(s, i + 1, i + Len(sub)) = sub

\* i64 / i64 once the divisor is known not to be zero: MIN / -1 overflows,
\* which panics in every build profile.
IntDiv(a, b) ==
    IF a = IntMin /\ b = 0 - 1 THEN Panic("attempt to divide with overflow")
    ELSE Ok(IntV(TruncDiv(a, b)))

\* i64 % i64: a zero divisor panics, and so does MIN % -1.
IntRem(a, b) ==
    IF b = 0 THEN Panic("attempt to calculate the remainder with a divisor of zero")
    ELSE IF a = IntMin /\ b = 0 - 1
    THEN Panic("attempt to calculate the remainder with overflow")
    ELSE Ok(IntV(TruncRem(a, b)))

\* The functions of the evaluator call one another through Eval, which takes the
\* name of the function called and its arguments.
RECURSIVE Eval(_, _)

\* Interpreter::eval_binary_op
eval_binary_op(op, left, right, st) ==
    LET ii == left.t = "Int" /\ right.t = "Int"
        ss == left.t = "Str" /\ right.t = "Str"
        bb == left.t = "Bool" /\ right.t = "Bool"
    IN  CASE op = "Add" /\ ii -> Arith(left.n + right.n)
          [] op = "Add" /\ ss -> Ok(StrV(left.s \o right.s))
          [] op = "Sub" /\ ii -> Arith(left.n - right.n)
          [] op = "Mul" /\ ii -> Arith(left.n * right.n)
          [] op = "Div" /\ ii ->
                IF right.n = 0 THEN Err("Division by zero") ELSE IntDiv(left.n, right.n)
          [] op = "Mod" /\ ii -> IntRem(left.n, right.n)
          [] op = "Eq" /\ ii -> Ok(BoolV(left.n = right.n))
          [] op = "Eq" /\ ss -> Ok(BoolV(left.s = right.s))
          [] op = "Eq" /\ bb -> Ok(BoolV(left.b = right.b))
          [] op = "Ne" /\ ii -> Ok(BoolV(left.n # right.n))
          [] op = "Lt" /\ ii -> Ok(BoolV(left.n < right.n))
          [] op = "Gt" /\ ii -> Ok(BoolV(left.n > right.n))
          [] op = "Le" /\ ii -> Ok(BoolV(left.n <= right.n))
          [] op = "Ge" /\ ii -> Ok(BoolV(left.n >= right.n))
          [] op = "And" -> Ok(BoolV(is_truthy(left, st) /\ is_truthy(right, st)))
          [] op = "Or" -> Ok(BoolV(is_truthy(left, st) \/ is_truthy(right, st)))
          [] op = "In" /\ right.t = "List" ->
                Ok(BoolV(\E i \in DOMAIN st.lists[right.ref] :
                             values_equal(left, st.lists[right.ref][i])))
          [] op = "In" /\ ss -> Ok(BoolV(Contains(right.s, left.s)))
          [] OTHER -> ErrA("Unsupported operation", op)

\* builtin_print / builtin_println: what the call writes to stdout
builtin_print(args, st) ==
    R([st EXCEPT !.stdout = @ \o Join(display_all(args, st), <<" ">>)], Ok(NoneV))
builtin_println(args, st) ==
    R([st EXCEPT !.stdout = @ \o Join(display_all(args, st), <<" ">>) \o <<"\n">>], Ok(NoneV))

\* builtin_len (String::len counts bytes; the model's text is ASCII)
builtin_len(args, st) ==
    IF Len(args) = 0 THEN R(st, Err("len() expects list, string, dict, or set"))
    ELSE LET a == args[1]
         IN  CASE a.t = "List" -> R(st, Ok(IntV(Len(st.lists[a.ref]))))
               [] a.t = "Str" -> R(st, Ok(IntV(Len(a.s))))
               [] a.t = "Dict" -> R(st, Ok(IntV(Cardinality(DOMAIN st.maps[a.ref]))))
               [] OTHER -> R(st, Err("len() expects list, string, dict, or set"))

\* Longest list range builds before the run is cut for want of memory.
MaxRange == 6

\* builtin_range, `while i < *end { list.push(i); i += step; }`: `i += step`
\* past the largest i64 panics in a build with overflow checks and wraps
\* without, after which the loop goes on from the wrapped i.
RECURSIVE RangeUp(_, _, _, _)
RangeUp(i, end, step, list) ==
    IF ~(i < end) THEN Ok(list)
    ELSE IF Len(list) >= MaxRange THEN Cut
    ELSE IF InRange(i + step) THEN RangeUp(i + step, end, step, Append(list, IntV(i)))
    ELSE IF overflow_checks THEN Panic("attempt to add with overflow")
    ELSE RangeUp(Wrap(i + step), end, step, Append(list, IntV(i)))
\* builtin_range, `while i > *end { list.push(i); i += step; }`
RECURSIVE RangeDown(_, _, _, _)
RangeDown(i, end, step, list) ==
    IF ~(i > end) THEN Ok(list)
    ELSE IF Len(list) >= MaxRange THEN Cut
    ELSE IF InRange(i + step) THEN RangeDown(i + step, end, step, Append(list, IntV(i)))
    ELSE IF overflow_checks THEN Panic("attempt to add with overflow")
    ELSE RangeDown(Wrap(i + step), end, step, Append(list, IntV(i)))

\* builtin_range
builtin_range(args, st) ==
    LET ints == \A i \in DOMAIN args : args[i].t = "Int"
        mk(items) == IF items.k # "Ok" THEN R(st, items)
                     ELSE LET n == NewList(st, items.v) IN R(n.st, Ok(ListV(n.ref)))
    IN  CASE Len(args) = 1 /\ ints -> mk(RangeUp(0, args[1].n, 1, <<>>))
          [] Len(args) = 2 /\ ints -> mk(RangeUp(args[1].n, args[2].n, 1, <<>>))
          [] Len(args) = 3 /\ ints ->
                mk(IF args[3].n > 0 THEN RangeUp(args[1].n, args[2].n, args[3].n, <<>>)
                   ELSE IF args[3].n < 0 THEN RangeDown(args[1].n, args[2].n, args[3].n, <<>>)
                   ELSE Ok(<<>>))
          [] OTHER -> R(st, Err("range() expects 1-3 integer arguments"))

\* builtin_str
builtin_str(args, st) ==
    IF Len(args) = 0 THEN R(st, Err("str() requires an argument"))
    ELSE R(st, Ok(StrV(display(args[1], st))))

\* builtins::call_builtin.  The builtins that reach outside the process or
\* that no claim exercises end the model's run as Unmodelled.
call_builtin(name, args, st) ==
    CASE name = T_print -> builtin_print(args, st)
      [] name = T_println -> builtin_println(args, st)
      [] name = T_len -> builtin_len(args, st)
      [] name = T_range -> builtin_range(args, st)
      [] name = T_str -> builtin_str(args, st)
      [] name \in {builtins[i] : i \in DOMAIN builtins} -> R(st, [k |-> "Unmodelled"])
      [] IsPrefix(T_class_prefix, name) ->
            LET m == NewMap(st, EmptyMap)
            IN  R(m.st, Ok(ClassV(SubSeq(name, Len(T_class_prefix) + 1, Len(name)), m.ref)))
      [] OTHER -> R(st, ErrA("Unknown builtin function", name))

M_append == <<"a", "p", "p", "e", "n", "d">>
M_pop == <<"p", "o", "p">>
M_insert == <<"i", "n", "s", "e", "r", "t">>
M_clear == <<"c", "l", "e", "a", "r">>
M_index == <<"i", "n", "d", "e", "x">>
M_count == <<"c", "o", "u", "n", "t">>
M_copy == <<"c", "o", "p", "y">>

\* Vec::insert
VecInsert(items, i, v) == SubSeq(items, 1, i) \o <<v>> \o SubSeq(items, i + 1, Len(items))

\* A faulty edit: it lands in a clone of the Vec, which is then dropped.
SetList_on_clone(st, ref, items) == NewList(st, items).st

\* The in-place edit of the Vec behind the list `ref`.
SetList(st, ref, items) == [st EXCEPT !.lists[ref] = items]

\* Interpreter::call_method, the List arm
list_method(ref, method, args, st) ==
    LET items == st.lists[ref]
    IN  CASE method = M_append ->
                IF Len(args) # 1 THEN R(st, Err("append() takes exactly 1 argument"))
                ELSE R(SetList(st, ref, Append(items, args[1])), Ok(NoneV))
          [] method = M_pop ->
                IF Len(items) = 0 THEN R(st, Err("pop from empty list"))
                ELSE R(SetList(st, ref, SubSeq(items, 1, Len(items) - 1)), Ok(items[Len(items)]))
          [] method = M_insert ->
                IF Len(args) # 2 THEN R(st, Err("insert() takes exactly 2 arguments"))
                ELSE IF args[1].t # "Int" THEN R(st, Err("insert() first argument must be int"))
                ELSE IF AsUsize(args[1].n) > Len(items)
                THEN R(st, Panic("insertion index is out of bounds"))
                ELSE R(SetList(st, ref, VecInsert(items, AsUsize(args[1].n), args[2])), Ok(NoneV))
          [] method = M_clear -> R(SetList(st, ref, <<>>), Ok(NoneV))
          [] method = M_index ->
                IF Len(args) # 1 THEN R(st, Err("index() takes exactly 1 argument"))
                ELSE LET hits == {i \in DOMAIN items : values_equal(args[1], items[i])}
                     IN  IF hits = {} THEN R(st, Err("value not in list"))
                         ELSE R(st, Ok(IntV((CHOOSE i \in hits : \A j \in hits : i <= j) - 1)))
          [] method = M_count ->
                IF Len(args) # 1 THEN R(st, Err("count() takes exactly 1 argument"))
                ELSE R(st, Ok(IntV(Cardinality({i \in DOMAIN items :
                                                   values_equal(args[1], items[i])}))))
          [] method = M_copy ->
                LET n == NewList(st, items) IN R(n.st, Ok(ListV(n.ref)))
          [] OTHER -> R(st, ErrA("List has no method", method))

\* Interpreter::call_method (the Str and Dict method tables are not modelled)
call_method(obj, method, args, st) ==
    CASE obj.t = "List" -> list_method(obj.ref, method, args, st)
      [] obj.t \in {"Str", "Dict"} -> R(st, [k |-> "Unmodelled"])
      [] OTHER -> R(st, ErrA("has no methods", display(obj, st)))

\* Interpreter::pattern_matches
pattern_matches(pattern, value) ==
    CASE pattern.k = "Wildcard" -> TRUE
      [] pattern.k = "Literal" /\ pattern.lit.k = "Int" ->
            value.t = "Int" /\ value.n = pattern.lit.n
      [] pattern.k = "Literal" /\ pattern.lit.k = "Str" ->
            value.t = "Str" /\ value.s = pattern.lit.s
      [] pattern.k = "Literal" /\ pattern.lit.k = "Bool" ->
            value.t = "Bool" /\ value.b = pattern.lit.b
      [] pattern.k = "Identifier" -> TRUE
      [] OTHER -> FALSE

(***************************************************************************)
(* Markup renderer (jsx_render.rs).                                        *)
(***************************************************************************)
RECURSIVE Replace(_, _, _)
\* str::replace of one character by a text
Replace(s, c, by) ==
    IF Len(s) = 0 THEN <<>>
    ELSE (IF s[1] = c THEN by ELSE <<s[1]>>) \o Replace(Tail(s), c, by)

\* escape_html
escape_html(s) ==
    Replace(Replace(Replace(Replace(Replace(s,
        "&", <<"&", "a", "m", "p", ";">>),
        "<", <<"&", "l", "t", ";">>),
        ">", <<"&", "g", "t", ";">>),
        "\"", <<"&", "q", "u", "o", "t", ";">>),
        "'", <<"&", "#", "3", "9", ";">>)

\* eval_jsx_expression: the body never reaches the interpreter's evaluator
eval_jsx_expression(expr, st) ==
    R(st, Err("Initialize logic pending pub(crate) access"))

RECURSIVE render_attributes(_, _, _, _)
RECURSIVE render_children(_, _, _, _)

\* render_jsx: the attribute loop, from attribute i on, html being the text so far
render_attributes(attributes, i, html, st) ==
    IF i > Len(attributes) THEN R(st, Ok(html))
    ELSE LET attr == attributes[i]
             v == eval_jsx_expression(attr.value[1], st)
             value_str == IF IsSome(attr.value)
                          THEN (IF v.r.v.t = "Str" THEN v.r.v.s ELSE display(v.r.v, v.st))
                          ELSE T_true
             after == IF IsSome(attr.value) THEN v.st ELSE st
         IN  IF IsSome(attr.value) /\ v.err THEN v
             ELSE render_attributes(attributes, i + 1,
                      html \o <<" ">> \o attr.name \o <<"=", "\"">>
                           \o escape_html(value_str) \o <<"\"">>,
                      after)

\* render_jsx: the children loop
render_children(children, i, html, st) ==
    IF i > Len(children) THEN R(st, Ok(html))
    ELSE LET child == children[i]
         IN  CASE child.k = "Element" ->
                    LET c == Eval("render_jsx", <<child.element, st>>)
                    IN  IF c.err THEN c
                        ELSE render_children(children, i + 1, html \o c.r.v, c.st)
               [] child.k = "Text" ->
                    render_children(children, i + 1, html \o escape_html(child.text), st)
               [] OTHER ->
                    LET v == eval_jsx_expression(child.e, st)
                    IN  IF v.err THEN v
                        ELSE render_children(children, i + 1,
                                 html \o escape_html(display(v.r.v, v.st)), v.st)

\* render_jsx: Result<String, String>, the String being the HTML text
render_jsx(element, st) ==
    LET a == render_attributes(element.attributes, 1, <<"<">> \o element.tag, st)
    IN  IF a.err THEN a
        ELSE IF Len(element.children) = 0 THEN R(a.st, Ok(a.r.v \o <<" ", "/", ">">>))
        ELSE LET c == render_children(element.children, 1, a.r.v \o <<">">>, a.st)
             IN  IF c.err THEN c
                 ELSE R(c.st, Ok(c.r.v \o <<"<", "/">> \o element.tag \o <<">">>))

(***************************************************************************)
(* Interpreter: the evaluator.                                             *)
(***************************************************************************)
ReturnV(v) == [t |-> "Return", v |-> v]

\* The parameters bound in order: a later parameter of the same name wins.
BindParams(params, args) ==
    [n \in {params[i] : i \in DOMAIN params} |->
        args[CHOOSE i \in DOMAIN params :
                 params[i] = n /\ \A j \in DOMAIN params : params[j] = n => j <= i]]

RECURSIVE eval_expression(_, _)
RECURSIVE eval_args(_, _, _, _)
RECURSIVE eval_statement(_, _)
RECURSIVE run_block(_, _, _)
RECURSIVE while_loop(_, _)
RECURSIVE for_loop(_, _, _, _)
RECURSIVE match_cases(_, _, _, _)
RECURSIVE call_body(_, _, _)
RECURSIVE call_function(_, _, _)

\* `for arg in args { values.push(self.eval_expression(arg)?) }`
eval_args(args, i, acc, st) ==
    IF i > Len(args) THEN R(st, Ok(acc))
    ELSE LET a == Eval("eval_expression", <<args[i], st>>)
         IN  IF a.err THEN a
             ELSE eval_args(args, i + 1, Append(acc, a.r.v), a.st)

\* Interpreter::eval_literal (Dict and Set literals are not modelled)
eval_literal(lit, st) ==
    CASE lit.k = "Int" -> R(st, Ok(IntV(lit.n)))
      [] lit.k = "Str" -> R(st, Ok(StrV(lit.s)))
      [] lit.k = "Bool" -> R(st, Ok(BoolV(lit.b)))
      [] lit.k = "None" -> R(st, Ok(NoneV))
      [] lit.k = "List" ->
            LET vs == Eval("eval_args", <<lit.items, 1, <<>>, st>>)
                n == NewList(vs.st, vs.r.v)
            IN  IF vs.err THEN vs ELSE R(n.st, Ok(ListV(n.ref)))
      [] OTHER -> R(st, [k |-> "Unmodelled"])

\* Interpreter::eval_expression, the UnaryOp arm
eval_unary_op(op, operand, st) ==
    IF op = "Neg"
    THEN (IF operand.t = "Int" THEN Arith(0 - operand.n)
          ELSE ErrA("Cannot negate", operand.t))
    ELSE Ok(BoolV(~is_truthy(operand, st)))

\* Interpreter::eval_expression, the MemberAccess arm once the object is known
member_access(obj, member, st) ==
    CASE obj.t = "Class" ->
            IF member \in DOMAIN st.maps[obj.ref] THEN Ok(st.maps[obj.ref][member])
            ELSE ErrA("Unknown member", member)
      [] obj.t = "Dict" ->
            IF member \in DOMAIN st.maps[obj.ref] THEN Ok(st.maps[obj.ref][member])
            ELSE ErrA("Key error", member)
      [] OTHER -> ErrA("Cannot access member of", obj.t)

\* Interpreter::eval_expression, the Index arm once object and index are known
index_value(obj, index, st) ==
    CASE obj.t = "List" /\ index.t = "Int" ->
            \* Vec::get(i as usize)
            IF AsUsize(index.n) < Len(st.lists[obj.ref])
            THEN Ok(st.lists[obj.ref][AsUsize(index.n) + 1])
            ELSE Err("Index out of bounds")
      [] obj.t = "Str" /\ index.t = "Int" ->
            \* chars().nth(i as usize)
            IF AsUsize(index.n) < Len(obj.s)
            THEN Ok(StrV(<<obj.s[AsUsize(index.n) + 1]>>))
            ELSE Err("Index out of bounds")
      [] obj.t = "Dict" /\ index.t = "Str" ->
            IF index.s \in DOMAIN st.maps[obj.ref] THEN Ok(st.maps[obj.ref][index.s])
            ELSE ErrA("Key error", index.s)
      [] OTHER -> Err("Invalid index operation")

\* Interpreter::eval_expression, the Call arm
eval_call(call, st) ==
    LET is_member == call.func.k = "MemberAccess"
        member == call.func
        full_name == member.object.name \o <<".">> \o member.member
        found == Env_get(st.scopes, st.env, full_name)
        is_module_fn == /\ is_member
                        /\ member.object.k = "Identifier"
                        /\ IsSome(found)
                        /\ found[1].t = "BuiltinFn"
    IN  IF is_module_fn
        THEN LET args == eval_args(call.args, 1, <<>>, st)
             IN  IF args.err THEN args
                 ELSE Eval("call_builtin", <<full_name, args.r.v, args.st>>)
        ELSE IF is_member
        THEN LET obj == Eval("eval_expression", <<member.object, st>>)
                 args == eval_args(call.args, 1, <<>>, obj.st)
             IN  IF obj.err THEN obj
                 ELSE IF args.err THEN args
                 ELSE call_method(obj.r.v, member.member, args.r.v, args.st)
        ELSE LET callee == Eval("eval_expression", <<call.func, st>>)
                 args == eval_args(call.args, 1, <<>>, callee.st)
             IN  IF callee.err THEN callee
                 ELSE IF args.err THEN args
                 ELSE call_function(callee.r.v, args.r.v, args.st)

\* A faulty BinaryOp arm: `and` and `or` leave the right operand unevaluated
\* when the left one decides the result.
eval_binary_short_circuit(bin, st) ==
    LET left == Eval("eval_expression", <<bin.left, st>>)
        right == Eval("eval_expression", <<bin.right, left.st>>)
        decided == \/ bin.op = "And" /\ ~is_truthy(left.r.v, left.st)
                   \/ bin.op = "Or" /\ is_truthy(left.r.v, left.st)
    IN  IF left.err THEN left
        ELSE IF decided THEN R(left.st, Ok(BoolV(bin.op = "Or")))
        ELSE IF right.err THEN right
        ELSE R(right.st, Eval("eval_binary_op", <<bin.op, left.r.v, right.r.v, right.st>>))

\* Interpreter::eval_expression, the BinaryOp arm: both operands, left then
\* right, and then the operator
eval_binary(bin, st) ==
    LET left == Eval("eval_expression", <<bin.left, st>>)
        right == Eval("eval_expression", <<bin.right, left.st>>)
    IN  IF left.err THEN left
        ELSE IF right.err THEN right
        ELSE R(right.st, Eval("eval_binary_op", <<bin.op, left.r.v, right.r.v, right.st>>))

\* Interpreter::eval_expression (Await is not modelled)
eval_expression(expr, st) ==
    CASE expr.k = "Literal" -> Eval("eval_literal", <<expr.lit, st>>)
      [] expr.k = "Identifier" ->
            LET found == Env_get(st.scopes, st.env, expr.name)
            IN  IF IsSome(found) THEN R(st, Ok(found[1]))
                ELSE R(st, ErrA("Undefined variable", expr.name))
      [] expr.k = "BinaryOp" -> Eval("eval_binary", <<expr, st>>)
      [] expr.k = "UnaryOp" ->
            LET operand == eval_expression(expr.operand, st)
            IN  IF operand.err THEN operand
                ELSE R(operand.st, Eval("eval_unary_op", <<expr.op, operand.r.v, operand.st>>))
      [] expr.k = "Call" -> eval_call(expr, st)
      [] expr.k = "MemberAccess" ->
            LET obj == eval_expression(expr.object, st)
            IN  IF obj.err THEN obj
                ELSE R(obj.st, Eval("member_access", <<obj.r.v, expr.member, obj.st>>))
      [] expr.k = "Index" ->
            LET obj == eval_expression(expr.object, st)
                index == eval_expression(expr.index, obj.st)
            IN  IF obj.err THEN obj
                ELSE IF index.err THEN index
                ELSE R(index.st, Eval("index_value", <<obj.r.v, index.r.v, index.st>>))
      [] expr.k = "Lambda" ->
            R(st, Ok(FnV(FunctionDef(T_lambda, expr.params,
                                     <<S_Return(0, Some(expr.body))>>), st.env)))
      [] expr.k = "JsxElement" ->
            LET html == Eval("render_jsx", <<expr.element, st>>)
            IN  IF html.err THEN html ELSE R(html.st, Ok(StrV(html.r.v)))
      [] OTHER -> R(st, [k |-> "Unmodelled"])

\* Interpreter::call_function, the loop over func.body: only Return (and `?`)
\* leaves it; a Break or Continue that reaches it is dropped.
call_body(body, i, st) ==
    IF i > Len(body) THEN R(st, ExValue(NoneV))
    ELSE LET s == eval_statement(body[i], st)
         IN  IF s.failed \/ s.r.k = "Return" THEN s
             ELSE call_body(body, i + 1, s.st)

\* A faulty call_function: the scope of the call hangs under the scope of
\* the caller instead of the scope captured by the function.
call_function_dynamic(callee, args, st) ==
    CASE callee.t = "Fn" ->
            IF Len(args) # Len(callee.func.params)
            THEN R(st, ErrA("Expected arguments", <<Len(callee.func.params), Len(args)>>))
            ELSE IF st.fuel = 0 THEN R(st, Cut)
            ELSE LET local_env == [values |-> BindParams(callee.func.params, args),
                                   parent |-> st.env]
                     old_env == st.env
                     entered == [st EXCEPT !.scopes = Append(@, local_env),
                                           !.env = Len(st.scopes) + 1,
                                           !.fuel = @ - 1]
                     b == Eval("call_body", <<callee.func.body, 1, entered>>)
                 IN  IF b.failed THEN b
                     ELSE IF b.r.k = "Return"
                     THEN R([b.st EXCEPT !.env = old_env], Ok(b.r.v))
                     ELSE R([b.st EXCEPT !.env = old_env], Ok(NoneV))
      [] callee.t = "BuiltinFn" -> Eval("call_builtin", <<callee.name, args, st>>)
      [] OTHER -> R(st, ErrA("Cannot call", callee.t))

\* A faulty call_function: the loop over func.body ends at a Break or a
\* Continue as it does at a Return, and the call hands the signal on to the
\* statement it was made from.
call_function_leaking_signals(callee, args, st) ==
    CASE callee.t = "Fn" ->
            IF Len(args) # Len(callee.func.params)
            THEN R(st, ErrA("Expected arguments", <<Len(callee.func.params), Len(args)>>))
            ELSE IF st.fuel = 0 THEN R(st, Cut)
            ELSE LET local_env == [values |-> BindParams(callee.func.params, args),
                                   parent |-> callee.env]
                     old_env == st.env
                     entered == [st EXCEPT !.scopes = Append(@, local_env),
                                           !.env = Len(st.scopes) + 1,
                                           !.fuel = @ - 1]
                     b == Eval("run_block", <<callee.func.body, 1, entered>>)
                 IN  IF b.failed THEN b
                     ELSE IF b.r.k = "Return"
                     THEN R([b.st EXCEPT !.env = old_env], Ok(b.r.v))
                     ELSE IF b.r.k \in {"Break", "Continue"}
                     THEN R([b.st EXCEPT !.env = old_env], b.r)
                     ELSE R([b.st EXCEPT !.env = old_env], Ok(NoneV))
      [] callee.t = "BuiltinFn" -> Eval("call_builtin", <<callee.name, args, st>>)
      [] OTHER -> R(st, ErrA("Cannot call", callee.t))

\* Interpreter::call_function.  The scope of the call is pushed once the
\* arity check has passed (the code builds it before and drops it on failure).
call_function(callee, args, st) ==
    CASE callee.t = "Fn" ->
            IF Len(args) # Len(callee.func.params)
            THEN R(st, ErrA("Expected arguments", <<Len(callee.func.params), Len(args)>>))
            ELSE IF st.fuel = 0 THEN R(st, Cut)
            ELSE LET local_env == [values |-> BindParams(callee.func.params, args),
                                   parent |-> callee.env]
                     old_env == st.env
                     entered == [st EXCEPT !.scopes = Append(@, local_env),
                                           !.env = Len(st.scopes) + 1,
                                           !.fuel = @ - 1]
                     b == call_body(callee.func.body, 1, entered)
                 IN  IF b.failed THEN b
                     ELSE IF b.r.k = "Return"
                     THEN R([b.st EXCEPT !.env = old_env], Ok(b.r.v))
                     ELSE R([b.st EXCEPT !.env = old_env], Ok(NoneV))
      [] callee.t = "BuiltinFn" -> Eval("call_builtin", <<callee.name, args, st>>)
      [] OTHER -> R(st, ErrA("Cannot call", callee.t))

\* A faulty loop over a block: a Return, Break or Continue a statement
\* yields is dropped and the next statement of the block runs.
RECURSIVE run_block_dropping_signals(_, _, _)
run_block_dropping_signals(block, i, st) ==
    IF i > Len(block) THEN R(st, ExValue(NoneV))
    ELSE LET s == eval_statement(block[i], st)
         IN  IF s.failed THEN s
             ELSE run_block_dropping_signals(block, i + 1, s.st)

\* The loop `for s in block` of an if branch, a loop body or a case body:
\* it ends at the first statement whose result is not a plain Value.
run_block(block, i, st) ==
    IF i > Len(block) THEN R(st, ExValue(NoneV))
    ELSE LET s == eval_statement(block[i], st)
         IN  IF s.r.k # "Value" THEN s
             ELSE run_block(block, i + 1, s.st)

\* A faulty While arm: a Break from the body is handled as the Continue arm
\* is, by going back to the condition.
while_loop_break_as_continue(w, st) ==
    LET cond == Eval("eval_expression", <<w.condition, Log(st, "cond", w.id)>>)
        body == Eval("run_block", <<w.body, 1, [cond.st EXCEPT !.fuel = @ - 1]>>)
    IN  IF cond.err THEN cond
        ELSE IF ~is_truthy(cond.r.v, cond.st) THEN R(cond.st, ExValue(NoneV))
        ELSE IF cond.st.fuel = 0 THEN R(cond.st, Cut)
        ELSE CASE body.r.k = "Return" -> body
               [] body.failed -> body
               [] OTHER -> while_loop(w, body.st)

\* Interpreter::eval_statement, the While arm
while_loop(w, st) ==
    LET cond == Eval("eval_expression", <<w.condition, Log(st, "cond", w.id)>>)
        body == Eval("run_block", <<w.body, 1, [cond.st EXCEPT !.fuel = @ - 1]>>)
    IN  IF cond.err THEN cond
        ELSE IF ~is_truthy(cond.r.v, cond.st) THEN R(cond.st, ExValue(NoneV))
        ELSE IF cond.st.fuel = 0 THEN R(cond.st, Cut)
        ELSE CASE body.r.k = "Return" -> body
               [] body.r.k = "Break" -> R(body.st, ExValue(NoneV))
               [] body.failed -> body
               [] OTHER -> while_loop(w, body.st)

\* A faulty For arm: the loop walks the Vec behind the iterated name as it
\* is when each iteration starts, not the clone taken at loop entry (it ends
\* with the run when the Vec keeps growing).
for_loop_over_live_list(f, items_vec, i, st) ==
    LET named == IF f.iterator.k = "Identifier"
                 THEN Env_get(st.scopes, st.env, f.iterator.name) ELSE NoneOpt
        live == IF IsSome(named) /\ named[1].t = "List"
                THEN st.lists[named[1].ref] ELSE items_vec
    IN  IF i > Len(live) THEN R(st, ExValue(NoneV))
        ELSE IF st.fuel = 0 THEN R(st, Cut)
        ELSE LET bound == [Log(st, "iter", f.id) EXCEPT
                               !.scopes = Env_define(@, st.env, f.target, live[i]),
                               !.fuel = @ - 1]
                 body == Eval("run_block", <<f.body, 1, bound>>)
             IN  CASE body.r.k = "Return" -> body
                   [] body.r.k = "Break" -> R(body.st, ExValue(NoneV))
                   [] body.failed -> body
                   [] OTHER -> for_loop(f, items_vec, i + 1, body.st)

\* A faulty For arm: every iteration runs in a scope of its own, a child of
\* the enclosing scope that holds the target, and leaves it afterwards.
for_loop_scope_per_iteration(f, items_vec, i, st) ==
    IF i > Len(items_vec) THEN R(st, ExValue(NoneV))
    ELSE LET entered == [Log(st, "iter", f.id) EXCEPT
                             !.scopes = Append(@, [values |-> (f.target :> items_vec[i]),
                                                   parent |-> st.env]),
                             !.env = Len(st.scopes) + 1]
             body == Eval("run_block", <<f.body, 1, entered>>)
             left == [body.st EXCEPT !.env = st.env]
         IN  CASE body.r.k = "Return" -> R(left, body.r)
               [] body.r.k = "Break" -> R(left, ExValue(NoneV))
               [] body.failed -> body
               [] OTHER -> for_loop(f, items_vec, i + 1, left)

\* A faulty For arm: a Continue from the body leaves the loop as a Break does.
for_loop_continue_as_break(f, items_vec, i, st) ==
    IF i > Len(items_vec) THEN R(st, ExValue(NoneV))
    ELSE LET bound == [Log(st, "iter", f.id) EXCEPT
                           !.scopes = Env_define(@, st.env, f.target, items_vec[i])]
             body == Eval("run_block", <<f.body, 1, bound>>)
         IN  CASE body.r.k = "Return" -> body
               [] body.r.k \in {"Break", "Continue"} -> R(body.st, ExValue(NoneV))
               [] body.failed -> body
               [] OTHER -> for_loop(f, items_vec, i + 1, body.st)

\* Interpreter::eval_statement, the For arm: the loop over items_vec
for_loop(f, items_vec, i, st) ==
    IF i > Len(items_vec) THEN R(st, ExValue(NoneV))
    ELSE LET bound == [Log(st, "iter", f.id) EXCEPT
                           !.scopes = Env_define(@, st.env, f.target, items_vec[i])]
             body == Eval("run_block", <<f.body, 1, bound>>)
         IN  CASE body.r.k = "Return" -> body
               [] body.r.k = "Break" -> R(body.st, ExValue(NoneV))
               [] body.failed -> body
               [] OTHER -> for_loop(f, items_vec, i + 1, body.st)

\* A faulty Match arm: after the body of a matching case the loop goes on to
\* the next case instead of leaving.
RECURSIVE match_cases_falling_through(_, _, _, _)
match_cases_falling_through(cases, i, value, st) ==
    IF i > Len(cases) THEN R(st, ExValue(NoneV))
    ELSE IF pattern_matches(cases[i].pattern, value)
    THEN LET bound == IF cases[i].pattern.k = "Identifier"
                      THEN [st EXCEPT !.scopes =
                                Env_define(@, st.env, cases[i].pattern.name, value)]
                      ELSE st
             body == Eval("run_block", <<cases[i].body, 1, bound>>)
         IN  IF body.r.k # "Value" THEN body
             ELSE match_cases_falling_through(cases, i + 1, value, body.st)
    ELSE match_cases_falling_through(cases, i + 1, value, st)

\* Interpreter::eval_statement, the Match arm: the loop over m.cases
match_cases(cases, i, value, st) ==
    IF i > Len(cases) THEN R(st, ExValue(NoneV))
    ELSE IF pattern_matches(cases[i].pattern, value)
    THEN LET bound == IF cases[i].pattern.k = "Identifier"
                      THEN [st EXCEPT !.scopes =
                                Env_define(@, st.env, cases[i].pattern.name, value)]
                      ELSE st
             body == Eval("run_block", <<cases[i].body, 1, bound>>)
         IN  IF body.r.k # "Value" THEN body ELSE R(body.st, ExValue(NoneV))
    ELSE match_cases(cases, i + 1, value, st)

\* Interpreter::eval_statement
eval_statement(stmt, st0) ==
    LET st == Log(st0, "stmt", stmt.id)
    IN  CASE stmt.k \in {"Let", "Const", "State"} ->
                LET value == Eval("eval_expression", <<stmt.value, st>>)
                IN  IF value.err THEN value
                    ELSE R([value.st EXCEPT !.scopes =
                                Env_define(@, value.st.env, stmt.name, value.r.v)],
                           ExValue(NoneV))
          [] stmt.k = "Assignment" ->
                LET value == Eval("eval_expression", <<stmt.value, st>>)
                    set == Env_set(value.st.scopes, value.st.env, stmt.target.name, value.r.v)
                IN  IF value.err THEN value
                    ELSE IF stmt.target.k # "Identifier" THEN R(value.st, ExValue(NoneV))
                    ELSE IF set.ok
                    THEN R([value.st EXCEPT !.scopes = set.scopes], ExValue(NoneV))
                    ELSE R([value.st EXCEPT !.scopes =
                                Env_define(@, value.st.env, stmt.target.name, value.r.v)],
                           ExValue(NoneV))
          [] stmt.k = "Return" ->
                IF IsSome(stmt.value)
                THEN LET value == Eval("eval_expression", <<stmt.value[1], st>>)
                     IN  IF value.err THEN value
                         ELSE R(value.st, ExReturn(value.r.v))
                ELSE R(st, ExReturn(NoneV))
          [] stmt.k = "If" ->
                LET cond == Eval("eval_expression", <<stmt.condition, st>>)
                    taken == IF is_truthy(cond.r.v, cond.st) THEN stmt.then_block
                             ELSE IF IsSome(stmt.else_block) THEN stmt.else_block[1]
                             ELSE <<>>
                    b == Eval("run_block", <<taken, 1, cond.st>>)
                IN  IF cond.err THEN cond
                    ELSE IF b.r.k # "Value" THEN b
                    ELSE R(b.st, ExValue(NoneV))
          [] stmt.k = "While" -> while_loop(stmt, st)
          [] stmt.k = "For" ->
                LET iter_val == Eval("eval_expression", <<stmt.iterator, st>>)
                IN  IF iter_val.err THEN iter_val
                    ELSE IF iter_val.r.v.t = "List"
                    THEN for_loop(stmt, iter_val.st.lists[iter_val.r.v.ref], 1, iter_val.st)
                    ELSE R(iter_val.st, ExValue(NoneV))
          [] stmt.k = "Match" ->
                LET value == Eval("eval_expression", <<stmt.value, st>>)
                IN  IF value.err THEN value
                    ELSE match_cases(stmt.cases, 1, value.r.v, value.st)
          [] stmt.k = "Break" -> R(st, ExBreak)
          [] stmt.k = "Continue" -> R(st, ExContinue)
          [] stmt.k = "Expression" ->
                LET v == Eval("eval_expression", <<stmt.e, st>>)
                IN  IF v.err THEN v ELSE R(v.st, ExValue(v.r.v))
          [] OTHER -> R(st, ExValue(NoneV))

\* Interpreter::eval_item (a server definition, which starts the listener,
\* is modelled with the listener)
eval_item(item, st) ==
    CASE item.k = "FunctionDef" ->
            R([st EXCEPT !.scopes = Env_define(@, st.env, item.f.name, FnV(item.f, st.env))],
              Ok(NoneV))
      [] item.k = "ClassDef" ->
            R([st EXCEPT !.scopes = Env_define(@, st.env, item.name,
                                               BuiltinFnV(T_class_prefix \o item.name))],
              Ok(NoneV))
      [] item.k = "Statement" ->
            LET res == eval_statement(item.stmt, st)
            IN  IF res.failed THEN res
                ELSE IF res.r.k \in {"Value", "Return"} THEN R(res.st, Ok(res.r.v))
                ELSE R(res.st, Ok(NoneV))
      [] OTHER -> R(st, Ok(NoneV))

(***************************************************************************)
(* Interpreter::run_server, the listener a server definition starts: one   *)
(* connection per step, strictly one after the other.                      *)
(***************************************************************************)
RouteDef(method, path, body) == [method |-> method, path |-> path, body |-> body]
I_ServerDef(name, body) == [k |-> "ServerDef", s |-> [name |-> name, body |-> body]]

\* Before run_server is entered.
Listener_idle == [global_env |-> 0, console |-> <<>>, wire |-> <<>>]

\* Connections one run of the listener accepts before the model leaves it.
MaxRequests == 2

\* The zero bytes of `buffer` the read did not overwrite: none of them is
\* whitespace or a line end, so one stands for all of them.
Nul == "NUL"

T_not_found == <<"N", "o", "t", " ", "F", "o", "u", "n", "d">>
T_OK == <<"O", "K">>

Response(status, body) == [status |-> status, body |-> body]

\* str::lines().next().unwrap_or(""): up to the first "\n", less a "\r"
\* right before it
first_line(request) ==
    LET breaks == {i \in DOMAIN request : request[i] = "\n"}
        end == IF breaks = {} THEN Len(request)
               ELSE (CHOOSE i \in breaks : \A j \in breaks : i <= j) - 1
        line == SubSeq(request, 1, end)
    IN  IF end < Len(request) /\ end > 0 /\ line[end] = "\r"
        THEN SubSeq(line, 1, end - 1) ELSE line

\* str::split_whitespace
RECURSIVE split_whitespace(_, _, _)
split_whitespace(s, i, word) ==
    LET done == IF word = <<>> THEN <<>> ELSE <<word>>
    IN  IF i > Len(s) THEN done
        ELSE IF s[i] \in {" ", "\t", "\n", "\r", "\f"}
        THEN done \o split_whitespace(s, i + 1, <<>>)
        ELSE split_whitespace(s, i + 1, Append(word, s[i]))

\* u8::to_ascii_lowercase on a one-character string
to_ascii_lowercase(c) ==
    LET upper == <<"A", "B", "C", "D", "E", "F", "G", "H", "I", "J", "K", "L", "M",
                   "N", "O", "P", "Q", "R", "S", "T", "U", "V", "W", "X", "Y", "Z">>
        lower == <<"a", "b", "c", "d", "e", "f", "g", "h", "i", "j", "k", "l", "m",
                   "n", "o", "p", "q", "r", "s", "t", "u", "v", "w", "x", "y", "z">>
        at == {i \in DOMAIN upper : upper[i] = c}
    IN  IF at = {} THEN c ELSE lower[CHOOSE i \in at : TRUE]

\* str::eq_ignore_ascii_case
eq_ignore_ascii_case(a, b) ==
    /\ Len(a) = Len(b)
    /\ \A i \in DOMAIN a : to_ascii_lowercase(a[i]) = to_ascii_lowercase(b[i])

\* `for item in &server_def.body` up to its `break`: the position of the
\* first route whose method and path match, 0 when the loop runs out.
RECURSIVE find_route(_, _, _, _)
find_route(body, i, method, path) ==
    IF i > Len(body) THEN 0
    ELSE IF eq_ignore_ascii_case(body[i].method, method) /\ body[i].path = path THEN i
    ELSE find_route(body, i + 1, method, path)

\* `for stmt in &route.body`: a Return ends it with route_result, an Err
\* with the 500; a Value, Break or Continue goes on to the next statement.
RECURSIVE route_body(_, _, _)
route_statement(body, i, s) ==
    IF s.failed THEN s
    ELSE IF s.r.k = "Return" THEN R(s.st, Ok(s.r.v))
    ELSE route_body(body, i + 1, s.st)

route_body(body, i, st) ==
    IF i > Len(body) THEN R(st, Ok(NoneV))
    ELSE route_statement(body, i, Eval("eval_statement", <<body[i], st>>))

\* A faulty listener: the scope of the first matched request is kept and
\* every later matched request runs in it.
request_env_shared(st, global_env) ==
    IF Len(st.scopes) > global_env /\ st.env # global_env THEN st
    ELSE [st EXCEPT !.scopes = Append(@, [values |-> EmptyMap, parent |-> global_env]),
                    !.env = Len(st.scopes) + 1]

\* `let request_env = Env::with_parent(global_env.clone()); self.env = request_env`
request_env(st, global_env) ==
    [st EXCEPT !.scopes = Append(@, [values |-> EmptyMap, parent |-> global_env]),
               !.env = Len(st.scopes) + 1]

\* The end of one pass of `for stream in listener.incoming()` that ran a
\* route body, b being what the loop over the body left: the interpreter
\* afterwards, the response written and the lines printed; ended holds how
\* the process ended when the route body took it down.
route_response(b) ==
    IF b.r.k = "Err"
    THEN [st |-> b.st, ended |-> NoneOpt,
          console |-> <<[line |-> "Error in route handler", e |-> b.r]>>,
          response |-> Some(Response("500 Internal Server Error",
                                     [prefix |-> "Error: ", e |-> b.r]))]
    ELSE IF b.failed
    THEN [st |-> b.st, ended |-> Some(b.r), console |-> <<>>, response |-> NoneOpt]
    ELSE [st |-> b.st, ended |-> NoneOpt, console |-> <<>>,
          response |-> Some(Response("200 OK",
                            CASE b.r.v.t = "Str" -> b.r.v.s
                              [] b.r.v.t = "None" -> T_OK
                              [] OTHER -> display(b.r.v, b.st)))]

\* One pass of `for stream in listener.incoming()` from the request read on.
handle_request(server_def, request, global_env, st) ==
    LET parts == split_whitespace(first_line(request), 1, <<>>)
        hit == IF Len(parts) >= 2 THEN find_route(server_def.body, 1, parts[1], parts[2])
               ELSE 0
    IN  IF hit = 0
        THEN [st |-> st, ended |-> NoneOpt, console |-> <<>>,
              response |-> Some(Response("404 Not Found", T_not_found))]
        ELSE route_response(route_body(server_def.body[hit].body, 1,
                                       request_env(st, global_env)))

Eval(fn, a) ==
    CASE fn = "eval_args" -> eval_args(a[1], a[2], a[3], a[4])
      [] fn = "eval_literal" -> eval_literal(a[1], a[2])
      [] fn = "eval_unary_op" -> eval_unary_op(a[1], a[2], a[3])
      [] fn = "member_access" -> member_access(a[1], a[2], a[3])
      [] fn = "index_value" -> index_value(a[1], a[2], a[3])
      [] fn = "eval_binary_op" -> eval_binary_op(a[1], a[2], a[3], a[4])
      [] fn = "eval_binary" -> eval_binary(a[1], a[2])
      [] fn = "call_builtin" -> call_builtin(a[1], a[2], a[3])
      [] fn = "list_method" -> list_method(a[1], a[2], a[3], a[4])
      [] fn = "call_method" -> call_method(a[1], a[2], a[3], a[4])
      [] fn = "render_jsx" -> render_jsx(a[1], a[2])
      [] fn = "eval_call" -> eval_call(a[1], a[2])
      [] fn = "eval_expression" -> eval_expression(a[1], a[2])
      [] fn = "call_body" -> call_body(a[1], a[2], a[3])
      [] fn = "call_function" -> call_function(a[1], a[2], a[3])
      [] fn = "run_block" -> run_block(a[1], a[2], a[3])
      [] fn = "while_loop" -> while_loop(a[1], a[2])
      [] fn = "for_loop" -> for_loop(a[1], a[2], a[3], a[4])
      [] fn = "match_cases" -> match_cases(a[1], a[2], a[3], a[4])
      [] fn = "eval_statement" -> eval_statement(a[1], a[2])
      [] fn = "eval_item" -> eval_item(a[1], a[2])

(***************************************************************************)
(* Interpreter::run, one item of the program per step.                     *)
(***************************************************************************)
\* One pass of `for item in &program.items`.
RunItem ==
    /\ phase = "run"
    /\ pc <= Len(program.items)
    /\ program.items[pc].k # "ServerDef"
    /\ LET r == Eval("eval_item", <<program.items[pc], interp>>)
       IN  /\ interp' = r.st
           /\ IF r.failed
              THEN /\ outcome' = Some(r.r)
                   /\ phase' = "done"
                   /\ UNCHANGED <<result, pc>>
              ELSE /\ result' = r.r.v
                   /\ IF r.r.v.t = "Return"
                      THEN /\ outcome' = Some(Ok(r.r.v.v))
                           /\ phase' = "done"
                           /\ pc' = pc
                      ELSE /\ pc' = pc + 1
                           /\ UNCHANGED <<outcome, phase>>
    /\ UNCHANGED <<command, source, tokens, parsed, diagnostics, program, overflow_checks,
                   listener>>

\* The loop is over: `Ok(result)`.
RunEnd ==
    /\ phase = "run"
    /\ pc > Len(program.items)
    /\ outcome' = Some(Ok(result))
    /\ phase' = "done"
    /\ UNCHANGED <<command, source, tokens, parsed, diagnostics, program, pc, interp,
                   result, overflow_checks, listener>>

(***************************************************************************)
(* Interpreter::run_server: the connections and the steps of the listener. *)
(***************************************************************************)
\* What a connection brings: the accept fails, the read fails, or the read
\* fills the start of the buffer with the bytes of a request.
Req_a == <<"G", "E", "T", " ", "/", "a", " ", "H", "T", "T", "P", "/", "1", ".", "1", "\r", "\n", "\r", "\n">>
Req_b == <<"g", "e", "t", " ", "/", "b", "\n">>
Req_post_b == <<"P", "O", "S", "T", " ", "/", "b", " ", "x", "\n">>
Req_c == <<"G", "E", "T", " ", "/", "c", " ", "\n">>
Req_short == <<"G", "E", "T", "\n">>
Req_open == <<"G", "E", "T", " ", "/", "a">>
Requests == {Req_a, Req_b, Req_post_b, Req_c, Req_short, Req_open}

Connections ==
    {[k |-> "refused"], [k |-> "unreadable"]}
        \cup {[k |-> "request", bytes |-> r] : r \in Requests}

\* Interpreter::eval_item on a server definition: run_server up to its loop.
Listen ==
    /\ phase = "run"
    /\ pc <= Len(program.items)
    /\ program.items[pc].k = "ServerDef"
    /\ \E bound \in BOOLEAN :
          IF bound
          THEN /\ listener' = [global_env |-> interp.env,
                               console |-> <<[line |-> "listening",
                                              name |-> program.items[pc].s.name]>>,
                               wire |-> <<>>]
               /\ phase' = "serve"
               /\ UNCHANGED outcome
          ELSE /\ outcome' = Some(Err("Failed to bind port"))
               /\ phase' = "done"
               /\ UNCHANGED listener
    /\ UNCHANGED <<command, source, tokens, parsed, diagnostics, program, pc, interp,
                   result, overflow_checks>>

\* The end of a pass whose read succeeded, h being what handling the
\* request left.
Respond(bytes, h) ==
    /\ interp' = h.st
    /\ listener' = [listener EXCEPT
                       !.console = @ \o h.console,
                       !.wire = Append(@, [request |-> Some(bytes),
                                           response |-> h.response])]
    /\ IF IsSome(h.ended)
       THEN outcome' = h.ended /\ phase' = "done"
       ELSE UNCHANGED <<outcome, phase>>

\* One pass of `for stream in listener.incoming()`.
Serve ==
    /\ phase = "serve"
    /\ Len(listener.wire) < MaxRequests
    /\ \E conn \in Connections :
          CASE conn.k = "refused" ->
                  /\ outcome' = Some(Err("Connection failed"))
                  /\ phase' = "done"
                  /\ UNCHANGED <<interp, listener>>
            [] conn.k = "unreadable" ->
                  /\ listener' = [listener EXCEPT
                                     !.wire = Append(@, [request |-> NoneOpt,
                                                         response |-> NoneOpt])]
                  /\ UNCHANGED <<interp, outcome, phase>>
            [] OTHER ->
                  Respond(conn.bytes,
                          handle_request(program.items[pc].s, conn.bytes \o <<Nul>>,
                                         listener.global_env, interp))
    /\ UNCHANGED <<command, source, tokens, parsed, diagnostics, program, pc, result,
                   overflow_checks>>

(***************************************************************************)
(* Programs handed to Interpreter::run directly, as a caller of the        *)
(* library may build them.  Each family varies what one group of           *)
(* behaviours depends on.                                                  *)
(***************************************************************************)
N_x == <<"x">>
N_y == <<"y">>
N_z == <<"z">>
N_i == <<"i">>
N_a == <<"a">>
N_b == <<"b">>
N_f == <<"f">>
N_g == <<"g">>
N_h == <<"h">>
N_r == <<"r">>
N_xs == <<"x", "s">>

Call0(name) == E_Call(E_Id(name), <<>>)
Call1(name, arg) == E_Call(E_Id(name), <<arg>>)
PrintOf(e) == Call1(T_print, e)
MethodCall(obj, method, args) == E_Call(E_Member(E_Id(obj), method), args)

\* Longest program family members, in items or statements.
MaxItems == 3

\* All sequences of length n over the atoms 1..k.
Choices(n, k) == [1..n -> 1..k]

\* ---- top-level statements, among them `return` ----
TopStmt(kind, id) ==
    CASE kind = 1 -> S_Let(id, N_x, E_Int(id))
      [] kind = 2 -> S_Expr(id, PrintOf(E_Id(N_x)))
      [] kind = 3 -> S_Return(id, Some(E_Int(7)))
      [] kind = 4 -> S_Return(id, NoneOpt)
      [] kind = 5 -> S_Return(id, Some(E_Id(N_x)))
      [] OTHER -> S_Assign(id, E_Id(N_y), E_Int(id))

TopPrograms ==
    {[items |-> [j \in 1..MaxItems |-> I_Statement(TopStmt(c[j], j))]] :
        c \in Choices(MaxItems, 6)}

\* ---- a loop between `let i = 0` and a closing statement ----
\* Statements of a loop body: the one at position j has id 10 * j and the
\* statements nested in it the ids that follow.
LoopStmt(kind, b) ==
    CASE kind = 1 -> S_Assign(b, E_Id(N_i), E_Bin("Add", E_Id(N_i), E_Int(1)))
      [] kind = 2 -> S_Expr(b, PrintOf(E_Id(N_i)))
      [] kind = 3 -> S_Break(b)
      [] kind = 4 -> S_Continue(b)
      [] kind = 5 -> S_If(b, E_Bin("Eq", E_Id(N_i), E_Int(1)), <<S_Break(b + 1)>>, NoneOpt)
      [] kind = 6 -> S_If(b, E_Bin("Eq", E_Id(N_i), E_Int(1)),
                          <<S_Continue(b + 1), S_Expr(b + 2, PrintOf(E_Id(N_i)))>>,
                          Some(<<S_Expr(b + 3, PrintOf(E_Str(N_z)))>>))
      [] kind = 7 -> S_Match(b, E_Id(N_i),
                             <<MatchCase(P_Literal([k |-> "Int", n |-> 2]),
                                         <<S_Break(b + 1)>>),
                               MatchCase(P_Wildcard, <<S_Expr(b + 2, PrintOf(E_Id(N_i)))>>)>>)
      [] kind = 8 -> S_Match(b, E_Id(N_i),
                             <<MatchCase(P_Identifier(N_y),
                                         <<S_If(b + 1, E_Bin("Eq", E_Id(N_y), E_Int(2)),
                                                <<S_Continue(b + 2)>>, NoneOpt),
                                           S_Expr(b + 3, PrintOf(E_Id(N_y)))>>)>>)
      [] OTHER -> S_While(b, E_Bool(TRUE),
                          <<S_If(b + 1, E_Bin("Eq", E_Id(N_i), E_Int(0)),
                                 <<S_Assign(b + 2, E_Id(N_i), E_Int(1)), S_Continue(b + 3)>>,
                                 NoneOpt),
                            S_Break(b + 4),
                            S_Expr(b + 5, PrintOf(E_Str(N_x)))>>)

\* Statements in a loop body of the family.
MaxBody == 2

LoopBody(c) == [j \in DOMAIN c |-> LoopStmt(c[j], 10 * j)]

LoopOver(kind, body) ==
    IF kind = "While"
    THEN S_While(2, E_Bin("Lt", E_Id(N_i), E_Int(3)), body)
    ELSE S_For(2, N_i, E_List(<<E_Int(0), E_Int(1), E_Int(2)>>), body)

LoopPrograms ==
    {[items |-> <<I_Statement(S_Let(1, N_i, E_Int(0))),
                  I_Statement(LoopOver(kind, LoopBody(c))),
                  I_Statement(S_Expr(3, PrintOf(E_Str(N_r))))>>] :
        kind \in {"While", "For"}, c \in Choices(MaxBody, 9)}

\* ---- a callee reading y, called from a function that binds y locally ----
N_m == <<"m">>
N_mk == <<"m", "k">>

\* How g comes to be: a def item, a lambda made at top level, or a lambda
\* made inside a call mk(3) whose parameter is y.
CalleeKinds == {"def", "lambda", "lambda_in_fn"}
\* Whether the top level binds y (to 1), before or after g is made.
GlobalKinds == {"none", "before", "after"}
\* How the caller f binds its own y (to 5).
CallerKinds == {"let", "param"}

CalleeItems(callee) ==
    CASE callee = "def" ->
            <<I_FunctionDef(FunctionDef(N_g, <<>>, <<S_Return(20, Some(E_Id(N_y)))>>))>>
      [] callee = "lambda" ->
            <<I_Statement(S_Let(20, N_g, E_Lambda(<<>>, E_Id(N_y))))>>
      [] OTHER ->
            <<I_FunctionDef(FunctionDef(N_mk, <<N_y>>,
                                        <<S_Return(20, Some(E_Lambda(<<>>, E_Id(N_y))))>>)),
              I_Statement(S_Let(21, N_g, Call1(N_mk, E_Int(3))))>>

GlobalItem == <<I_Statement(S_Let(10, N_y, E_Int(1)))>>

\* f calls g directly (depth 1) or through m (depth 2).
CallerItems(caller, depth) ==
    LET inner == IF depth = 1 THEN N_g ELSE N_m
        middle == IF depth = 1 THEN <<>>
                  ELSE <<I_FunctionDef(FunctionDef(N_m, <<>>,
                                                   <<S_Return(25, Some(Call0(N_g)))>>))>>
    IN  middle \o
        (IF caller = "let"
         THEN <<I_FunctionDef(FunctionDef(N_f, <<>>,
                                          <<S_Let(30, N_y, E_Int(5)),
                                            S_Return(31, Some(Call0(inner)))>>)),
                I_Statement(S_Let(40, N_r, Call0(N_f)))>>
         ELSE <<I_FunctionDef(FunctionDef(N_f, <<N_y>>,
                                          <<S_Return(31, Some(Call0(inner)))>>)),
                I_Statement(S_Let(40, N_r, Call1(N_f, E_Int(5))))>>)

ScopeProgram(callee, global, caller, depth) ==
    [items |-> (IF global = "before" THEN GlobalItem ELSE <<>>) \o
               CalleeItems(callee) \o
               (IF global = "after" THEN GlobalItem ELSE <<>>) \o
               CallerItems(caller, depth)]

ScopePrograms ==
    {ScopeProgram(callee, global, caller, depth) :
        callee \in CalleeKinds, global \in GlobalKinds,
        caller \in CallerKinds, depth \in {1, 2}}

\* ---- two names of one list, edited in place through either ----
N_push == <<"p", "u", "s", "h">>
N_l == <<"l">>

\* In-place edits in a program of the family.
MaxEdits == 2

\* The name an edit goes through.
EditVia(kind) == IF kind \in {1, 2, 3, 4, 9} THEN N_a ELSE N_b

EditStmt(kind, id) ==
    CASE kind \in {1, 5} -> S_Expr(id, MethodCall(EditVia(kind), M_append, <<E_Int(2)>>))
      [] kind \in {2, 6} -> S_Expr(id, MethodCall(EditVia(kind), M_pop, <<>>))
      [] kind \in {3, 7} -> S_Expr(id, MethodCall(EditVia(kind), M_insert,
                                                  <<E_Int(0), E_Int(5)>>))
      [] kind \in {4, 8} -> S_Expr(id, MethodCall(EditVia(kind), M_clear, <<>>))
      [] OTHER -> S_Expr(id, Call1(N_push, E_Id(EditVia(kind))))

AliasProgram(c) ==
    [items |-> <<I_FunctionDef(FunctionDef(N_push, <<N_l>>,
                     <<S_Expr(5, MethodCall(N_l, M_append, <<E_Int(9)>>))>>)),
                 I_Statement(S_Let(1, N_a, E_List(<<E_Int(1)>>))),
                 I_Statement(S_Let(2, N_b, E_Id(N_a)))>> \o
               [j \in DOMAIN c |-> I_Statement(EditStmt(c[j], 10 + j))] \o
               <<I_Statement(S_Expr(3, PrintOf(E_Id(N_a)))),
                 I_Statement(S_Expr(4, PrintOf(E_Id(N_b))))>>]

AliasPrograms == {AliasProgram(c) : c \in Choices(MaxEdits, 10)}

\* ---- one binary operation on two Int literals ----
ArithOps == {"Add", "Sub", "Mul", "Div", "Mod"}
ArithLefts == {IntMin, 0 - 3, 0 - 1, 0, 2, 5, IntMax}
ArithRights == {0 - 1, 0, 1, 2}

ArithProgram(a, op, b) ==
    [items |-> <<I_Statement(S_Let(1, N_r, E_Bin(op, E_Int(a), E_Int(b)))),
                 I_Statement(S_Expr(2, PrintOf(E_Id(N_r))))>>]

ArithPrograms == {ArithProgram(a, op, b) : a \in ArithLefts, op \in ArithOps, b \in ArithRights}

\* ---- one Index expression on a list or a text ----
T_abc == <<"a", "b", "c">>
Receivers == {E_List(<<E_Int(10), E_Int(20), E_Int(30)>>), E_List(<<>>),
              E_Str(T_abc), E_Str(<<>>)}
Indices == {IntMin, IntMax} \cup ((0 - 3)..5)

IndexProgram(recv, i) ==
    [items |-> <<I_Statement(S_Let(1, N_xs, recv)),
                 I_Statement(S_Let(2, N_r, E_Index(E_Id(N_xs), E_Int(i)))),
                 I_Statement(S_Expr(3, PrintOf(E_Id(N_r))))>>]

IndexPrograms == {IndexProgram(recv, i) : recv \in Receivers, i \in Indices}

\* ---- one markup element ----
T_href == <<"h", "r", "e", "f">>
T_hidden == <<"h", "i", "d", "d", "e", "n">>
T_hi == <<"h", "i">>
T_lt == <<"a", "<", "b">>

AttributeLists ==
    {<<>>,
     <<JsxAttribute(T_hidden, NoneOpt)>>,
     <<JsxAttribute(T_href, Some(E_Str(N_x)))>>,
     <<JsxAttribute(T_href, Some(E_Id(N_y)))>>,
     <<JsxAttribute(T_hidden, NoneOpt), JsxAttribute(T_href, Some(E_Str(N_x)))>>}

ChildLists ==
    {<<>>,
     <<JsxText(T_hi)>>,
     <<JsxText(T_lt)>>,
     <<JsxChildElement(JsxElement(N_b, <<>>, <<JsxText(T_hi)>>))>>,
     <<JsxChildElement(JsxElement(N_b, <<JsxAttribute(T_href, Some(E_Str(N_x)))>>, <<>>))>>,
     <<JsxText(T_hi), JsxChildExpression(E_Id(N_y))>>}

JsxProgram(attributes, children) ==
    [items |-> <<I_Statement(S_Let(1, N_y, E_Str(N_z))),
                 I_Statement(S_Let(2, N_h, E_Jsx(JsxElement(N_a, attributes, children)))),
                 I_Statement(S_Expr(3, PrintOf(E_Id(N_h))))>>]

JsxPrograms == {JsxProgram(attributes, children) :
                    attributes \in AttributeLists, children \in ChildLists}

\* ---- a statement of a function body under nested if, match and loops ----
\* The statement with id b that holds inner first in one of its blocks,
\* followed there by a sibling with id b + 1.
Nest(kind, b, inner) ==
    LET block == <<inner, S_Expr(b + 1, PrintOf(E_Str(N_x)))>>
        other(id) == <<S_Expr(id, PrintOf(E_Str(N_y)))>>
    IN  CASE kind = "If" -> S_If(b, E_Bool(TRUE), block, NoneOpt)
          [] kind = "Else" -> S_If(b, E_Bool(FALSE), other(b + 5), Some(block))
          [] kind = "Match" ->
                S_Match(b, E_Int(1),
                        <<MatchCase(P_Literal([k |-> "Int", n |-> 2]), other(b + 3)),
                          MatchCase(P_Literal([k |-> "Int", n |-> 1]), block),
                          MatchCase(P_Wildcard, other(b + 4))>>)
          [] kind = "While" ->
                S_While(b, E_Bin("Lt", E_Id(N_i), E_Int(2)),
                        <<S_Assign(b + 2, E_Id(N_i), E_Bin("Add", E_Id(N_i), E_Int(1)))>>
                            \o block)
          [] OTHER -> S_For(b, N_a, E_List(<<E_Int(0), E_Int(1)>>), block)

Signal(sig, id) ==
    CASE sig = "Return7" -> S_Return(id, Some(E_Int(7)))
      [] sig = "ReturnNone" -> S_Return(id, NoneOpt)
      [] sig = "Break" -> S_Break(id)
      [] sig = "Continue" -> S_Continue(id)
      [] OTHER -> S_Expr(id, PrintOf(E_Str(N_z)))

\* The statement kinds of chain from position j on, outermost first, around
\* the signal: the statement at position j has id 10 * j.
RECURSIVE Nested(_, _, _)
Nested(chain, j, sig) ==
    IF j > Len(chain) THEN Signal(sig, 10 * j)
    ELSE Nest(chain[j], 10 * j, Nested(chain, j + 1, sig))

NestKinds == {"If", "Else", "Match", "While", "For"}
NestChains == {<<k>> : k \in NestKinds} \cup {<<k, m>> : k, m \in NestKinds}
                  \cup {<<k, "If", "Match">> : k \in {"If", "While", "For"}}
Signals == {"Return7", "ReturnNone", "Break", "Continue", "None"}

NestProgram(chain, sig) ==
    [items |-> <<I_Statement(S_Let(1, N_i, E_Int(0))),
                 I_FunctionDef(FunctionDef(N_f, <<>>,
                                           <<Nested(chain, 1, sig),
                                             S_Expr(90, PrintOf(E_Str(N_z)))>>)),
                 I_Statement(S_Let(95, N_r, Call0(N_f))),
                 I_Statement(S_Expr(96, PrintOf(E_Id(N_r))))>>]

NestPrograms == {NestProgram(chain, sig) : chain \in NestChains, sig \in Signals}

\* ---- a match on the result of a call that counts its calls ----
T_one == <<"1">>
PatternOf(kind) ==
    CASE kind = 1 -> P_Literal([k |-> "Int", n |-> 1])
      [] kind = 2 -> P_Literal([k |-> "Int", n |-> 2])
      [] kind = 3 -> P_Wildcard
      [] kind = 4 -> P_Identifier(N_y)
      [] OTHER -> P_Literal([k |-> "Str", s |-> T_one])

\* g adds one to i and returns it: 1 at its first call, 2 at a second.  The
\* body of the case at position j prints j.
MatchProgram(c) ==
    [items |-> <<I_Statement(S_Let(1, N_i, E_Int(0))),
                 I_FunctionDef(FunctionDef(N_g, <<>>,
                     <<S_Assign(10, E_Id(N_i), E_Bin("Add", E_Id(N_i), E_Int(1))),
                       S_Return(11, Some(E_Id(N_i)))>>)),
                 I_Statement(S_Match(20, Call0(N_g),
                     [j \in DOMAIN c |->
                         MatchCase(PatternOf(c[j]), <<S_Expr(20 + j, PrintOf(E_Int(j)))>>)])),
                 I_Statement(S_Expr(60, PrintOf(E_Str(N_r))))>>]

MatchPrograms == UNION {{MatchProgram(c) : c \in Choices(n, 5)} : n \in 0..MaxItems}

\* ---- a loop whose body declares x, at top level or in a function ----
\* The body reads in its second iteration the x its first declared, then
\* declares x again and counts the iteration in i.
ScopedLoop(kind, n) ==
    LET body == <<S_If(21, E_Bin("Eq", E_Id(N_i), E_Int(1)),
                       <<S_Let(22, N_z, E_Id(N_x))>>, NoneOpt),
                  S_Let(23, N_x, E_Bin("Add", E_Id(N_i), E_Int(10))),
                  S_Assign(24, E_Id(N_i), E_Bin("Add", E_Id(N_i), E_Int(1)))>>
    IN  IF kind = "While" THEN S_While(20, E_Bin("Lt", E_Id(N_i), E_Int(n)), body)
        ELSE S_For(20, N_a, E_List([j \in 1..n |-> E_Int(4 + j)]), body)

LoopScopeProgram(kind, n, place) ==
    [items |-> <<I_Statement(S_Let(1, N_i, E_Int(0)))>> \o
               (IF place = "top"
                THEN <<I_Statement(ScopedLoop(kind, n)),
                       I_Statement(S_Let(30, N_r, E_Id(N_x)))>>
                ELSE <<I_FunctionDef(FunctionDef(N_f, <<>>,
                                                 <<ScopedLoop(kind, n),
                                                   S_Return(29, Some(E_Id(N_x)))>>)),
                       I_Statement(S_Let(30, N_r, Call0(N_f)))>>)]

LoopScopePrograms ==
    {LoopScopeProgram(kind, n, place) :
        kind \in {"While", "For"}, n \in 1..MaxItems, place \in {"top", "function"}}

\* ---- x bound, or not, at top level and in f; f then writes and reads x ----
GlobalBindings == {"none", "let"}
LocalBindings == {"none", "let", "param"}
Writes == {"none", "assign", "let"}

\* f binds x to 2 (or not), writes 3 to x (or not) and returns x as read
\* from the scope of a call made in its own, one link further down the
\* chain.  y is bound at top level throughout.
EnvProgram(global, local, write) ==
    [items |-> <<I_Statement(S_Let(1, N_y, E_Int(5)))>> \o
               (IF global = "let" THEN <<I_Statement(S_Let(2, N_x, E_Int(1)))>> ELSE <<>>) \o
               <<I_FunctionDef(FunctionDef(N_f, IF local = "param" THEN <<N_x>> ELSE <<>>,
                     (IF local = "let" THEN <<S_Let(10, N_x, E_Int(2))>> ELSE <<>>) \o
                     (CASE write = "assign" -> <<S_Assign(11, E_Id(N_x), E_Int(3))>>
                        [] write = "let" -> <<S_Let(11, N_x, E_Int(3))>>
                        [] OTHER -> <<>>) \o
                     <<S_Return(12, Some(E_Call(E_Lambda(<<>>, E_Id(N_x)), <<>>)))>>)),
                 I_Statement(S_Let(20, N_r,
                                   IF local = "param" THEN Call1(N_f, E_Int(2))
                                   ELSE Call0(N_f)))>>]

EnvPrograms == {EnvProgram(global, local, write) :
                    global \in GlobalBindings, local \in LocalBindings, write \in Writes}

\* ---- `and` and `or` over operands that leave a mark ----
\* t prints its argument and returns it.  The operands: true, false, 0, 2,
\* the empty text and None; as right operand also a division by zero.
Operand(kind) ==
    CASE kind = 1 -> E_Bool(TRUE)
      [] kind = 2 -> E_Bool(FALSE)
      [] kind = 3 -> E_Int(0)
      [] kind = 4 -> E_Int(2)
      [] kind = 5 -> E_Str(<<>>)
      [] OTHER -> E_None
Operands == 1..6
\* The right operands: 0 stands for the division by zero.
RightOperands == 0..6

LogicProgram(op, l, r) ==
    [items |-> <<I_FunctionDef(FunctionDef(N_f, <<N_x>>,
                                           <<S_Expr(10, PrintOf(E_Id(N_x))),
                                             S_Return(11, Some(E_Id(N_x)))>>)),
                 I_Statement(S_Let(20, N_r,
                     E_Bin(op, Call1(N_f, Operand(l)),
                           IF r = 0 THEN E_Bin("Div", E_Int(1), E_Int(0))
                           ELSE Call1(N_f, Operand(r))))),
                 I_Statement(S_Expr(30, PrintOf(E_Id(N_r))))>>]

LogicPrograms == {LogicProgram(op, l, r) :
                      op \in {"And", "Or"}, l \in Operands, r \in RightOperands}

\* ---- a match whose case binds the scrutinee to y ----
\* y is bound to 9 before the match, or not; the match is at top level or
\* in the body of f.
BindingMatch(prior) ==
    (IF prior = "let" THEN <<S_Let(10, N_y, E_Int(9))>> ELSE <<>>) \o
    <<S_Match(20, E_Int(2),
              <<MatchCase(P_Identifier(N_y), <<S_Expr(21, PrintOf(E_Id(N_y)))>>)>>)>>

BindProgram(prior, place) ==
    [items |-> IF place = "top"
               THEN [j \in DOMAIN BindingMatch(prior) |-> I_Statement(BindingMatch(prior)[j])]
                        \o <<I_Statement(S_Expr(30, PrintOf(E_Str(N_r))))>>
               ELSE <<I_FunctionDef(FunctionDef(N_f, <<>>, BindingMatch(prior))),
                      I_Statement(S_Expr(29, Call0(N_f))),
                      I_Statement(S_Expr(30, PrintOf(E_Str(N_r))))>>]

BindPrograms == {BindProgram(prior, place) :
                     prior \in {"none", "let"}, place \in {"top", "function"}}

\* ---- a field of a class instance written and read through two names ----
N_P == <<"P">>

\* a is an instance of the class P and b another name of it; `via.f = 7` is
\* written through one of them and f is read through one of them.
MemberProgram(write_via, read_via) ==
    [items |-> <<I_ClassDef(N_P),
                 I_Statement(S_Let(1, N_a, Call0(N_P))),
                 I_Statement(S_Let(2, N_b, E_Id(N_a))),
                 I_Statement(S_Assign(3, E_Member(E_Id(write_via), N_f), E_Int(7))),
                 I_Statement(S_Let(4, N_r, E_Member(E_Id(read_via), N_f)))>>]

MemberPrograms == {MemberProgram(write_via, read_via) :
                       write_via \in {N_a, N_b}, read_via \in {N_a, N_b}}

\* ---- a loop whose body calls a function that breaks or continues ----
\* f holds the signal outside every loop of its own: bare, or under the if,
\* else and match blocks of chain.  The loop of the caller runs n times; its
\* body calls f (as an expression statement or as the value of a let) and
\* then prints y.
ConfineChains == {<<>>, <<"If">>, <<"Else">>, <<"Match">>, <<"If", "Match">>}
ConfineSignals == {"Break", "Continue"}

CallerLoop(kind, n, form) ==
    LET call == IF form = "Let" THEN S_Let(61, N_a, Call0(N_f))
                ELSE S_Expr(61, Call0(N_f))
        body == <<S_Assign(62, E_Id(N_i), E_Bin("Add", E_Id(N_i), E_Int(1))),
                  call,
                  S_Expr(63, PrintOf(E_Str(N_y)))>>
    IN  IF kind = "While" THEN S_While(60, E_Bin("Lt", E_Id(N_i), E_Int(n)), body)
        ELSE S_For(60, N_b, E_List([j \in 1..n |-> E_Int(j)]), body)

ConfineProgram(chain, sig, kind, n, form) ==
    [items |-> <<I_Statement(S_Let(1, N_i, E_Int(0))),
                 I_FunctionDef(FunctionDef(N_f, <<>>,
                                           <<Nested(chain, 1, sig),
                                             S_Expr(90, PrintOf(E_Str(N_z)))>>)),
                 I_Statement(CallerLoop(kind, n, form)),
                 I_Statement(S_Expr(96, PrintOf(E_Id(N_i))))>>]

ConfinePrograms ==
    {ConfineProgram(chain, sig, kind, n, form) :
        chain \in ConfineChains, sig \in ConfineSignals,
        kind \in {"While", "For"}, n \in 1..2, form \in {"Let", "Expr"}}

\* ---- a for loop whose body edits the list it iterates over ----
\* a holds n elements, 6, 7, ...; the body makes the edits of c on a
\* (1 append, 2 pop, 3 insert at the front, 4 clear) and then prints the
\* target on a line of its own.
SnapshotProgram(n, c) ==
    [items |-> <<I_Statement(S_Let(1, N_a, E_List([j \in 1..n |-> E_Int(5 + j)]))),
                 I_Statement(S_For(70, N_x, E_Id(N_a),
                                   [j \in DOMAIN c |-> EditStmt(c[j], 70 + j)] \o
                                   <<S_Expr(75, Call1(T_println, E_Id(N_x)))>>))>>]

SnapshotPrograms ==
    {SnapshotProgram(n, c) : n \in 0..MaxItems, c \in Choices(1, 4) \cup Choices(MaxEdits, 4)}

\* ---- a server definition after a global counter ----
\* The routes a server is built from:
\*   1  GET /a    g = g + 1; return g
\*   2  GET /a    return "hi"
\*   3  get /b    let z = 5; w = 6; break; return none
\*   4  POST /b   return z
\*   5  GET /c    return w
N_w == <<"w">>
N_S == <<"S">>
Route(kind) ==
    CASE kind = 1 -> RouteDef(<<"G", "E", "T">>, <<"/", "a">>,
                              <<S_Assign(11, E_Id(N_g), E_Bin("Add", E_Id(N_g), E_Int(1))),
                                S_Return(12, Some(E_Id(N_g)))>>)
      [] kind = 2 -> RouteDef(<<"G", "E", "T">>, <<"/", "a">>,
                              <<S_Return(21, Some(E_Str(T_hi)))>>)
      [] kind = 3 -> RouteDef(<<"g", "e", "t">>, <<"/", "b">>,
                              <<S_Let(31, N_z, E_Int(5)),
                                S_Assign(32, E_Id(N_w), E_Int(6)),
                                S_Break(33),
                                S_Return(34, Some(E_None))>>)
      [] kind = 4 -> RouteDef(<<"P", "O", "S", "T">>, <<"/", "b">>,
                              <<S_Return(41, Some(E_Id(N_z)))>>)
      [] OTHER -> RouteDef(<<"G", "E", "T">>, <<"/", "c">>,
                           <<S_Return(51, Some(E_Id(N_w)))>>)

RouteKinds == 1..5
RouteLists ==
    {<<>>, <<3, 4, 5>>} \cup {<<k>> : k \in RouteKinds}
        \cup {<<k, m>> : k, m \in RouteKinds}

ServerProgram(routes) ==
    [items |-> <<I_Statement(S_Let(1, N_g, E_Int(0))),
                 I_ServerDef(N_S, [j \in DOMAIN routes |-> Route(routes[j])])>>]

ServerPrograms == {ServerProgram(routes) : routes \in RouteLists}

\* ---- one negation of an integer ----
NegProgram(a) ==
    [items |-> <<I_Statement(S_Let(1, N_r, E_Un("Neg", E_Int(a)))),
                 I_Statement(S_Expr(2, PrintOf(E_Id(N_r))))>>]

NegPrograms == {NegProgram(a) : a \in ArithLefts}

\* ---- a for loop over range(...) ----
\* The argument lists of range: counts, [start, end) pairs, and triples
\* with a step, among them steps that leave the last element within one
\* step of the largest or smallest integer.
RangeArgs ==
    {<<n>> : n \in {0 - 1, 0, 1, 3}}
    \cup {<<a, b>> : a \in {0 - 1, 2}, b \in {0, 2, 4}}
    \cup {<<5, 1, 0 - 2>>, <<0, 5, 2>>, <<0, 6, 3>>, <<1, 4, 0>>, <<1, 5, 0 - 1>>,
          <<5, 1, 2>>, <<IntMax - 3, IntMax, 1>>, <<IntMin + 2, IntMin, 0 - 1>>,
          <<IntMax - 1, IntMax, 2>>, <<IntMin + 1, IntMin, 0 - 2>>}

RangeProgram(args) ==
    [items |-> <<I_Statement(S_For(1, N_i,
                                   E_Call(E_Id(T_range), [j \in DOMAIN args |-> E_Int(args[j])]),
                                   <<S_Expr(2, Call1(T_println, E_Id(N_i)))>>)),
                 I_Statement(S_Expr(3, PrintOf(E_Str(N_r))))>>]

RangePrograms == {RangeProgram(args) : args \in RangeArgs}

RunPrograms == TopPrograms \cup LoopPrograms \cup ScopePrograms \cup AliasPrograms
                   \cup ArithPrograms \cup IndexPrograms \cup JsxPrograms
                   \cup RangePrograms \cup NestPrograms
                   \cup MatchPrograms \cup LoopScopePrograms
                   \cup EnvPrograms \cup LogicPrograms
                   \cup BindPrograms \cup MemberPrograms \cup NegPrograms \cup SnapshotPrograms \cup ConfinePrograms

InitRun ==
    /\ command = "run"
    /\ phase = "run"
    /\ source = <<>>
    /\ tokens = <<>>
    /\ parsed = NoneOpt
    /\ diagnostics = <<>>
    /\ program \in RunPrograms
    /\ pc = 1
    /\ interp = Interpreter_new
    /\ result = NoneV
    /\ outcome = NoneOpt
    /\ overflow_checks \in BOOLEAN
    /\ listener = Listener_idle

NextRun == RunItem \/ RunEnd

SpecRun == InitRun /\ [][NextRun]_vars

(***************************************************************************)
(* What the trace and the program say about a run.                         *)
(***************************************************************************)
\* The statement `id` has started executing.
Executed(id) == \E k \in 1..Len(interp.trace) :
                    interp.trace[k].e = "stmt" /\ interp.trace[k].id = id

IsTopReturn(item) == item.k = "Statement" /\ item.stmt.k = "Return"

\* The value a top-level `return` of literals and global names returns.
ReturnOperand(stmt) ==
    IF IsSome(stmt.value) THEN eval_expression(stmt.value[1], interp).r ELSE Ok(NoneV)

Finished == phase = "done" /\ IsSome(outcome)
FinishedOk == Finished /\ outcome[1].k = "Ok"

\* C1: when run evaluates a top-level `return e` statement (and e has a
\* value), run stops at that item with Ok(value of e): no statement of a
\* later item executes, so none of their bindings or output occur.
C1_TopLevelReturnEndsRun ==
    \A j \in 1..Len(program.items) :
        LET item == program.items[j]
        IN  (/\ IsTopReturn(item)
             /\ Executed(item.stmt.id)
             /\ ReturnOperand(item.stmt).k = "Ok"
             /\ ~ (Finished /\ Failed(outcome[1]) /\ pc = j))
            => /\ pc = j
               /\ phase = "done"
               /\ outcome = Some(ReturnOperand(item.stmt))
               /\ \A k \in (j + 1)..Len(program.items) :
                      program.items[k].k = "Statement"
                          => ~ Executed(program.items[k].stmt.id)

(***************************************************************************)
(* Loops in the trace.                                                     *)
(***************************************************************************)
Ev(e, id) == [e |-> e, id |-> id]

\* The blocks nested directly in a statement.
SubBlocks(s) ==
    CASE s.k = "If" -> {s.then_block} \cup
                       (IF IsSome(s.else_block) THEN {s.else_block[1]} ELSE {})
      [] s.k \in {"While", "For"} -> {s.body}
      [] s.k = "Match" -> {s.cases[i].body : i \in DOMAIN s.cases}
      [] OTHER -> {}

\* Every statement of a block, at any depth.
RECURSIVE AllStmts(_)
AllStmts(block) ==
    UNION {{block[i]} \cup UNION {AllStmts(b) : b \in SubBlocks(block[i])} :
               i \in DOMAIN block}

\* The statements of a block reached through if and match blocks only: those
\* whose break or continue belongs to the loop whose body the block is.
RECURSIVE OwnStmts(_)
OwnStmts(block) ==
    UNION {{block[i]} \cup
           (IF block[i].k \in {"While", "For"} THEN {}
            ELSE UNION {OwnStmts(b) : b \in SubBlocks(block[i])}) :
               i \in DOMAIN block}

TopStmts == {program.items[j].stmt :
                 j \in {n \in DOMAIN program.items : program.items[n].k = "Statement"}}

Loops == {s \in UNION {AllStmts(<<t>>) : t \in TopStmts} : s.k \in {"While", "For"}}

\* The events of a loop's own run: its condition tests, its element
\* bindings and the statements of its body.
Internal(L) == {Ev("stmt", s.id) : s \in AllStmts(L.body)} \cup
               {Ev("cond", L.id), Ev("iter", L.id)}

\* The loop is an item of the program, and the run has passed it normally:
\* the item's value is None and, once the run is over, the event after
\* position k is the first statement of the next item.
TopLoopCompleted(L, k) ==
    \A j \in DOMAIN program.items :
        (program.items[j].k = "Statement" /\ program.items[j].stmt = L)
            => /\ pc > j
               /\ (pc = j + 1 /\ phase = "run") => result = NoneV
               /\ (Finished /\ j < Len(program.items))
                      => /\ Len(interp.trace) > k
                         /\ interp.trace[k + 1] = Ev("stmt", program.items[j + 1].stmt.id)

\* C4: when a break executes in a loop body (directly or inside if/match
\* blocks of it), nothing more of that loop runs (no later statement of the
\* iteration, no further condition test or element) unless the loop
\* statement is itself started again, the loop statement completes with a
\* plain None, and the statement following the loop executes.
C4_BreakEndsLoop ==
    \A L \in Loops :
        \A B \in {s \in OwnStmts(L.body) : s.k = "Break"} :
            \A k \in 1..Len(interp.trace) :
                interp.trace[k] = Ev("stmt", B.id)
                    => /\ \A m \in (k + 1)..Len(interp.trace) :
                              interp.trace[m] \in Internal(L)
                                  => \E j \in (k + 1)..(m - 1) :
                                         interp.trace[j] = Ev("stmt", L.id)
                       /\ Finished => /\ Len(interp.trace) > k
                                      /\ interp.trace[k + 1] \notin Internal(L)
                       /\ TopLoopCompleted(L, k)

\* A break nested in an if of a while body has executed and the statement
\* after the loop has run.
C4_Witness ==
    /\ FinishedOk
    /\ \E L \in Loops :
           /\ L.k = "While" /\ L.id = 2
           /\ \E s \in OwnStmts(L.body) :
                  /\ s.k = "If"
                  /\ \E B \in AllStmts(s.then_block), k \in 1..Len(interp.trace) :
                         /\ B.k = "Break"
                         /\ k < Len(interp.trace)
                         /\ interp.trace[k] = Ev("stmt", B.id)
                         /\ interp.trace[k + 1] = Ev("stmt", 3)
           /\ \E s \in OwnStmts(L.body) : s.k = "Assignment" /\ Executed(s.id)

\* The latest start of loop L at or before position k of the trace, and the
\* number of elements L has bound since.
LastStart(L, k) ==
    CHOOSE j \in 0..k :
        /\ j > 0 => interp.trace[j] = Ev("stmt", L.id)
        /\ \A m \in (j + 1)..k : interp.trace[m] # Ev("stmt", L.id)
ItersSince(L, k) ==
    Cardinality({m \in LastStart(L, k)..k : m > 0 /\ interp.trace[m] = Ev("iter", L.id)})

\* C5: when a continue executes in a loop body (directly or inside if/match
\* blocks of it), the next thing to happen is the loop's next condition test
\* (while) or the binding of its next element (for): the rest of the
\* iteration is skipped and nothing else is; after the last element the for
\* statement completes normally, the signal going no further than the loop.
C5_ContinueSkipsIteration ==
    \A L \in Loops :
        \A C \in {s \in OwnStmts(L.body) : s.k = "Continue"} :
            \A k \in 1..Len(interp.trace) :
                interp.trace[k] = Ev("stmt", C.id)
                    => IF L.k = "While"
                       THEN /\ Len(interp.trace) > k
                            /\ interp.trace[k + 1] = Ev("cond", L.id)
                       ELSE IF ItersSince(L, k) < Len(L.iterator.lit.items)
                       THEN /\ Len(interp.trace) > k
                            /\ interp.trace[k + 1] = Ev("iter", L.id)
                       ELSE /\ \A m \in (k + 1)..Len(interp.trace) :
                                   interp.trace[m] \notin Internal(L)
                            /\ TopLoopCompleted(L, k)

\* A continue nested in an if of a for body has executed before the last
\* element, the loop has gone on to bind its next element, and the run is over.
C5_Witness ==
    /\ FinishedOk
    /\ \E L \in Loops :
           /\ L.k = "For"
           /\ \E s \in OwnStmts(L.body) :
                  /\ s.k = "If"
                  /\ \E C \in AllStmts(s.then_block), k \in 1..Len(interp.trace) :
                         /\ C.k = "Continue"
                         /\ k < Len(interp.trace)
                         /\ interp.trace[k] = Ev("stmt", C.id)
                         /\ interp.trace[k + 1] = Ev("iter", L.id)
    /\ Executed(3)

(***************************************************************************)
(* Scoping.                                                                *)
(***************************************************************************)
GlobalValue(name) == Env_get(interp.scopes, 1, name)

\* The scopes in which the caller f bound its own y.
CallerScopes == {e \in DOMAIN interp.scopes :
                     /\ interp.scopes[e].parent # 0
                     /\ N_y \in DOMAIN interp.scopes[e].values
                     /\ interp.scopes[e].values[N_y] = IntV(5)}

\* C3: scoping is lexical.  A callee reading y, called (directly or through
\* another function) from f whose local scope binds y to 5, never sees that
\* 5: it reads the y of the chain captured where it was made (3 for the
\* lambda made in mk(3), else the top-level 1), and with no such y the run
\* fails with Undefined variable.  No scope hangs under the caller's scope.
C3_LexicalScoping ==
    /\ \A e \in DOMAIN interp.scopes : interp.scopes[e].parent \notin CallerScopes
    /\ \A callee \in CalleeKinds, global \in GlobalKinds, caller \in CallerKinds,
          depth \in {1, 2} :
           (program = ScopeProgram(callee, global, caller, depth) /\ Finished)
               => IF callee = "lambda_in_fn"
                  THEN FinishedOk /\ GlobalValue(N_r) = Some(IntV(3))
                  ELSE IF global = "none"
                  THEN /\ outcome = Some(ErrA("Undefined variable", N_y))
                       /\ GlobalValue(N_r) = NoneOpt
                  ELSE FinishedOk /\ GlobalValue(N_r) = Some(IntV(1))

\* g was called two calls deep below f, whose scope binds y, and its read of
\* y failed.
C3_Witness ==
    /\ Finished
    /\ program = ScopeProgram("def", "none", "let", 2)
    /\ CallerScopes # {}
    /\ Executed(20)
    /\ outcome = Some(ErrA("Undefined variable", N_y))

(***************************************************************************)
(* Aliased lists.                                                          *)
(***************************************************************************)
\* The sequence read through a top-level name bound to a list.
ContentsOf(name) == interp.lists[GlobalValue(name)[1].ref]

\* What one edit of the family makes of the sequence s.
Edited(kind, s) ==
    CASE kind \in {1, 5} -> Append(s, IntV(2))
      [] kind \in {2, 6} -> SubSeq(s, 1, Len(s) - 1)
      [] kind \in {3, 7} -> <<IntV(5)>> \o s
      [] kind \in {4, 8} -> <<>>
      [] OTHER -> Append(s, IntV(9))

\* [1] after the first n edits of c
RECURSIVE EditedBy(_, _)
EditedBy(c, n) == IF n = 0 THEN <<IntV(1)>> ELSE Edited(c[n], EditedBy(c, n - 1))

Shown(s) == <<"[">> \o Join([i \in DOMAIN s |-> IntToString(s[i].n)], <<",", " ">>) \o <<"]">>

\* C6: after `let b = a` with a bound to a list, a and b read the same
\* sequence in every later state, and it is the sequence all the edits made
\* so far through either name, or by a function given either name, produced;
\* printing a and b at the end shows it twice.
C6_AliasingLaw ==
    \A c \in Choices(MaxEdits, 10) :
        (program = AliasProgram(c) /\ pc >= 4)
            => LET done == Min2(pc - 4, Len(c))
               IN  /\ ContentsOf(N_a) = EditedBy(c, done)
                   /\ ContentsOf(N_b) = EditedBy(c, done)
                   /\ FinishedOk
                          => interp.stdout = Shown(EditedBy(c, Len(c))) \o
                                             Shown(EditedBy(c, Len(c)))

\* An append through a and then an append by push(b) were both read back
\* through the other name.
C6_Witness ==
    /\ FinishedOk
    /\ program = AliasProgram([j \in 1..MaxEdits |-> IF j = 1 THEN 1 ELSE 10])
    /\ ContentsOf(N_b)[2] = IntV(2)
    /\ ContentsOf(N_a)[Len(ContentsOf(N_a))] = IntV(9)
    /\ Executed(4)

(***************************************************************************)
(* Errors of single expressions.                                           *)
(***************************************************************************)
\* C8: for every Int a, `a / 0` and `a % 0` each end the run with a runtime
\* error (an Err with a message): no value is produced and the process does
\* not crash.
C8_ZeroDivisorIsRuntimeError ==
    \A a \in ArithLefts, op \in {"Div", "Mod"} :
        program = ArithProgram(a, op, 0)
            => /\ pc = 1
               /\ GlobalValue(N_r) = NoneOpt
               /\ Finished => outcome[1].k = "Err"

\* The elements of a receiver of the family, as values.
ElementsOf(recv) ==
    IF recv.lit.k = "List" THEN [i \in DOMAIN recv.lit.items |-> IntV(recv.lit.items[i].lit.n)]
    ELSE [i \in DOMAIN recv.lit.s |-> StrV(<<recv.lit.s[i]>>)]

\* C10: an Index expression on a List or Str with Int index i yields the
\* i-th element or character when 0 <= i < length, and otherwise (i at or
\* past the length, or negative) fails with the out-of-bounds error and
\* yields nothing.
C10_IndexBoundsChecked ==
    \A recv \in Receivers, i \in Indices :
        (program = IndexProgram(recv, i) /\ (Finished \/ pc > 2))
            => IF 0 <= i /\ i < Len(ElementsOf(recv))
               THEN /\ pc > 2
                    /\ GlobalValue(N_r) = Some(ElementsOf(recv)[i + 1])
               ELSE /\ pc = 2
                    /\ outcome = Some(Err("Index out of bounds"))
                    /\ GlobalValue(N_r) = NoneOpt

\* The index -1 on a three-element list has been refused.
C10_Witness ==
    /\ Finished
    /\ program = IndexProgram(E_List(<<E_Int(10), E_Int(20), E_Int(30)>>), 0 - 1)
    /\ Executed(2)
    /\ outcome = Some(Err("Index out of bounds"))

(***************************************************************************)
(* Markup.                                                                 *)
(***************************************************************************)
\* The text of an attribute value of the family: a string literal is its
\* text and the name y is bound to the text "z".
AttributeText(value) ==
    IF value = NoneOpt THEN T_true
    ELSE IF value[1].k = "Literal" THEN value[1].lit.s
    ELSE N_z

RECURSIVE Html(_)
RECURSIVE HtmlAttributes(_)
RECURSIVE HtmlChildren(_)
\* The HTML of an element: each attribute as name="escaped value" in source
\* order, then the children, text escaped.
Html(element) ==
    <<"<">> \o element.tag \o HtmlAttributes(element.attributes) \o
    (IF Len(element.children) = 0 THEN <<" ", "/", ">">>
     ELSE <<">">> \o HtmlChildren(element.children) \o <<"<", "/">> \o element.tag \o <<">">>)
HtmlAttributes(attributes) ==
    IF Len(attributes) = 0 THEN <<>>
    ELSE <<" ">> \o attributes[1].name \o <<"=", "\"">> \o
         escape_html(AttributeText(attributes[1].value)) \o <<"\"">> \o
         HtmlAttributes(Tail(attributes))
HtmlChildren(children) ==
    IF Len(children) = 0 THEN <<>>
    ELSE (CASE children[1].k = "Element" -> Html(children[1].element)
            [] children[1].k = "Text" -> escape_html(children[1].text)
            [] OTHER -> N_z) \o
         HtmlChildren(Tail(children))

\* <a href="x">hi</a>
T_link == <<"<", "a", " ", "h", "r", "e", "f", "=", "\"", "x", "\"", ">", "h", "i", "<", "/", "a", ">">>

\* C9: a markup element with a string-literal attribute and a text child
\* renders: `<a href="x">hi</a>` yields Ok(`<a href="x">hi</a>`), and in
\* general every element renders to its HTML, each attribute with a value
\* (string literal or brace expression) emitted as name="escaped value".
C9_MarkupRenders ==
    /\ (program = JsxProgram(<<JsxAttribute(T_href, Some(E_Str(N_x)))>>, <<JsxText(T_hi)>>)
        /\ Finished)
           => FinishedOk /\ GlobalValue(N_h) = Some(StrV(T_link))
    /\ \A attributes \in AttributeLists, children \in ChildLists :
           (program = JsxProgram(attributes, children) /\ Finished)
               => /\ FinishedOk
                  /\ GlobalValue(N_h) = Some(StrV(Html(JsxElement(N_a, attributes, children))))

(***************************************************************************)
(* range and the for loop over it.                                         *)
(***************************************************************************)
\* The arithmetic sequence start, start + step, ... short of end, over the
\* integers: the elements below end for a positive step, above end for a
\* negative one, and none for a zero step.
Sequence(start, end, step) ==
    LET count == IF step > 0 /\ start < end THEN ((end - start - 1) \div step) + 1
                 ELSE IF step < 0 /\ start > end THEN ((start - end - 1) \div (0 - step)) + 1
                 ELSE 0
    IN  [k \in 1..count |-> start + (k - 1) * step]

RangeOf(args) ==
    CASE Len(args) = 1 -> Sequence(0, args[1], 1)
      [] Len(args) = 2 -> Sequence(args[1], args[2], 1)
      [] OTHER -> Sequence(args[1], args[2], args[3])

\* The executions of the one-statement body of the loop with id loop.
BodyRuns(loop) ==
    SelectSeq(interp.trace, LAMBDA ev : ev.e = "stmt" /\ ev.id = loop + 1)

\* What println leaves on stdout for each element of s in turn.
RECURSIVE PrintedLines(_, _)
PrintedLines(s, k) ==
    IF k > Len(s) THEN <<>> ELSE IntToString(s[k]) \o <<"\n">> \o PrintedLines(s, k + 1)

\* C11: range(n) is [0, ..., n-1], range(start, end) is [start, ..., end-1]
\* and range(start, end, step) is start, start+step, ... while below end for
\* a positive step and above end for a negative one; a for loop over it runs
\* its body once per element, in order, with the target bound to the element,
\* and the run goes on after the loop.
C11_RangeIsArithmeticSequence ==
    \A args \in RangeArgs :
        (program = RangeProgram(args) /\ (Finished \/ pc > 1))
            => /\ pc > 1
               /\ Len(BodyRuns(1)) = Len(RangeOf(args))
               /\ interp.stdout = PrintedLines(RangeOf(args), 1)
                                      \o (IF pc > 2 THEN N_r ELSE <<>>)

(***************************************************************************)
(* Signals through nested blocks.                                          *)
(***************************************************************************)
\* How often the statement with this id has executed.
Count(id) == Cardinality({k \in DOMAIN interp.trace : interp.trace[k] = Ev("stmt", id)})

\* The position in chain of the innermost loop, 0 when there is none.
InnermostLoop(chain) ==
    LET loops == {j \in DOMAIN chain : chain[j] \in {"While", "For"}}
    IN  IF loops = {} THEN 0 ELSE CHOOSE j \in loops : \A m \in loops : m <= j

\* The program is one of those whose third item is `let r = f()`, as every
\* NestProgram is.
CallsNested ==
    /\ Len(program.items) = 4
    /\ program.items[3] = I_Statement(S_Let(95, N_r, Call0(N_f)))

\* C13: control signals propagate unchanged through nested blocks.  For a
\* function f whose body holds a statement under if, else, match and loop
\* blocks (each block followed inside by a later sibling) and then a closing
\* statement, once `let r = f()` has run:
\*  - a return ended the call with its value (None without an operand): it
\*    executed once, no later sibling at any depth and no closing statement
\*    executed, and r is that value;
\*  - a break or continue went up through the if and match blocks to the
\*    innermost loop and no further: no later sibling from that loop's body
\*    inwards executed, the later siblings outside the loop and the closing
\*    statement did, a break executed once and a continue once per iteration;
\*    with no loop around it the signal went up to the function body, which
\*    dropped it;
\*  - a body that finishes without return yields None.
C13_SignalsPropagate ==
    (CallsNested /\ (Finished \/ pc > 3)) =>
    \A chain \in NestChains, sig \in Signals :
        program = NestProgram(chain, sig)
            => LET d == Len(chain)
                   p == InnermostLoop(chain)
                   sid == 10 * (d + 1)
               IN  /\ pc > 3
                   /\ CASE sig = "Return7" ->
                              /\ GlobalValue(N_r) = Some(IntV(7))
                              /\ Count(sid) = 1
                              /\ \A j \in 1..d : ~Executed(10 * j + 1)
                              /\ ~Executed(90)
                        [] sig = "ReturnNone" ->
                              /\ GlobalValue(N_r) = Some(NoneV)
                              /\ Count(sid) = 1
                              /\ \A j \in 1..d : ~Executed(10 * j + 1)
                              /\ ~Executed(90)
                        [] sig \in {"Break", "Continue"} ->
                              /\ GlobalValue(N_r) = Some(NoneV)
                              /\ \A j \in 1..d : Executed(10 * j + 1) <=> j < p
                              /\ Executed(90)
                              /\ (\A j \in 1..(p - 1) : chain[j] \notin {"While", "For"})
                                     => Count(sid) = IF p = 0 \/ sig = "Break" THEN 1 ELSE 2
                        [] OTHER ->
                              /\ GlobalValue(N_r) = Some(NoneV)
                              /\ \A j \in 1..d : Executed(10 * j + 1)
                              /\ Executed(sid) /\ Executed(90)

\* A return under a match inside an if inside a while loop of f has ended
\* the call: r is 7 and the run went on to the statement after the call.
C13_Witness ==
    /\ program = NestProgram(<<"While", "If", "Match">>, "Return7")
    /\ FinishedOk
    /\ Executed(40) /\ Executed(96)
    /\ GlobalValue(N_r) = Some(IntV(7))

(***************************************************************************)
(* match.                                                                  *)
(***************************************************************************)
\* The program is one whose third item is a match on the call g().
MatchesCall ==
    /\ Len(program.items) = 4
    /\ program.items[3].k = "Statement"
    /\ program.items[3].stmt.k = "Match"
    /\ program.items[3].stmt.value = Call0(N_g)

\* The positions of the cases whose pattern accepts the Int 1: the literal
\* 1, the wildcard and a name to bind.
Accepting(cases) ==
    {j \in DOMAIN cases :
        \/ cases[j].pattern.k \in {"Wildcard", "Identifier"}
        \/ cases[j].pattern = P_Literal([k |-> "Int", n |-> 1])}

\* C15: a match evaluates its scrutinee exactly once, tests the patterns in
\* source order, executes the body of the first matching case only and then
\* stops; when no pattern matches no body runs; either way the statement
\* yields a plain None and the run goes on.  The scrutinee g() counts its
\* evaluations (its value is 1 the first time and would be 2 the second).
C15_FirstMatchOnly ==
    (MatchesCall /\ (Finished \/ pc > 3))
        => LET cases == program.items[3].stmt.cases
               first == CHOOSE j \in Accepting(cases) : \A m \in Accepting(cases) : j <= m
           IN  /\ pc > 3
               /\ (pc = 4 /\ phase = "run") => result = NoneV
               /\ Count(10) = 1
               /\ GlobalValue(N_i) = Some(IntV(1))
               /\ \A j \in DOMAIN cases :
                      Count(20 + j) = IF Accepting(cases) # {} /\ j = first THEN 1 ELSE 0
               /\ Finished => FinishedOk /\ Executed(60)

\* Of three cases, the literal 2, a name and the wildcard, the second has
\* run after the first was passed over, and the run is over.
C15_Witness ==
    /\ program = MatchProgram(<<2, 4, 3>>)
    /\ FinishedOk
    /\ Executed(22) /\ ~Executed(21) /\ ~Executed(23)

(***************************************************************************)
(* The scope of a loop body.                                               *)
(***************************************************************************)
\* The binding of name in the scope at position e itself, parents aside.
BoundIn(e, name) ==
    IF name \in DOMAIN interp.scopes[e].values
    THEN Some(interp.scopes[e].values[name]) ELSE NoneOpt

\* C16: loop bodies get no scope per iteration.  For a while or for loop of
\* n iterations, at top level or in the body of a function f, whose body
\* declares x with `let` (and reads, in its second iteration, the x of the
\* first): once the statement after the loop has run, the only scopes are
\* the global one and, for the loop in f, the one of the call; the scope
\* enclosing the loop holds x with the value of the last iteration, z with
\* the x the first iteration declared, and the for target with the last
\* element; and `x` read after the loop is that last value.
C16_LoopBodySharesScope ==
    (Finished \/ pc > 3) =>
    \A kind \in {"While", "For"}, n \in 1..MaxItems, place \in {"top", "function"} :
        program = LoopScopeProgram(kind, n, place)
            => LET e == IF place = "top" THEN 1 ELSE 2
               IN  /\ pc > 3
                   /\ Len(interp.scopes) = e
                   /\ BoundIn(e, N_x) = Some(IntV(n + 9))
                   /\ BoundIn(e, N_z) = IF n >= 2 THEN Some(IntV(10)) ELSE NoneOpt
                   /\ BoundIn(e, N_a) = IF kind = "For" THEN Some(IntV(4 + n)) ELSE NoneOpt
                   /\ BoundIn(1, N_r) = Some(IntV(n + 9))
                   /\ place = "function" => BoundIn(1, N_x) = NoneOpt

\* A for loop of two iterations in the body of f has run: the scope of the
\* call holds the x of the second iteration and the target's last element.
C16_Witness ==
    /\ program = LoopScopeProgram("For", 2, "function")
    /\ FinishedOk
    /\ Count(22) = 1 /\ Count(23) = 2
    /\ BoundIn(2, N_x) = Some(IntV(11))
    /\ BoundIn(2, N_a) = Some(IntV(6))

(***************************************************************************)
(* The environment chain.                                                  *)
(***************************************************************************)
\* C17: get and set resolve a name in the nearest scope of the chain that
\* holds it; set changes that scope's binding alone, and when no scope holds
\* the name the assignment defines it in the innermost scope; define writes
\* the innermost scope alone.  With x bound to 1 at top level (or not) and
\* to 2 in f (or not), once f has written 3 to x and `let r = f()` has ended:
\*  - `x = 3` changed f's x when f had one and the global x left as it was,
\*    changed the global x when only that was there, and bound x in f's scope
\*    when neither was;
\*  - `let x = 3` bound x in f's scope and left the global x as it was;
\*  - r, read one scope below f's, is f's x when f has one and the global x
\*    otherwise, and the run fails with Undefined variable when none has;
\*  - y and f are bound at top level as before and f's scope holds nothing
\*    but x.
C17_EnvironmentChain ==
    (Finished \/ pc > Len(program.items)) =>
    \A global \in GlobalBindings, local \in LocalBindings, write \in Writes :
        program = EnvProgram(global, local, write)
            => LET g0 == IF global = "let" THEN Some(IntV(1)) ELSE NoneOpt
                   l0 == IF local = "none" THEN NoneOpt ELSE Some(IntV(2))
                   three == Some(IntV(3))
                   l1 == CASE write = "let" -> three
                           [] write = "assign" ->
                                 IF IsSome(l0) \/ ~IsSome(g0) THEN three ELSE l0
                           [] OTHER -> l0
                   g1 == IF write = "assign" /\ ~IsSome(l0) /\ IsSome(g0) THEN three ELSE g0
                   read == IF IsSome(l1) THEN l1 ELSE g1
               IN  /\ Len(interp.scopes) >= 2
                   /\ BoundIn(2, N_x) = l1
                   /\ BoundIn(1, N_x) = g1
                   /\ DOMAIN interp.scopes[2].values \subseteq {N_x}
                   /\ BoundIn(1, N_y) = Some(IntV(5))
                   /\ IsSome(BoundIn(1, N_f))
                   /\ IF IsSome(read)
                      THEN pc > Len(program.items) /\ BoundIn(1, N_r) = read
                      ELSE /\ outcome = Some(ErrA("Undefined variable", N_x))
                           /\ BoundIn(1, N_r) = NoneOpt

\* f, with no x of its own, has assigned to the global x, one scope up the
\* chain, and read it back from one scope further down.
C17_Witness ==
    /\ FinishedOk
    /\ program = EnvProgram("let", "none", "assign")
    /\ BoundIn(1, N_x) = Some(IntV(3))
    /\ BoundIn(2, N_x) = NoneOpt
    /\ BoundIn(1, N_r) = Some(IntV(3))

(***************************************************************************)
(* and, or.                                                                *)
(***************************************************************************)
\* The program is one of those whose second item binds r to a BinaryOp of
\* `and` or `or`.
BindsLogic ==
    /\ Len(program.items) = 3
    /\ program.items[2].k = "Statement"
    /\ program.items[2].stmt.k = "Let"
    /\ program.items[2].stmt.value.k = "BinaryOp"
    /\ program.items[2].stmt.value.op \in {"And", "Or"}

\* The operands that count as true: true and the non-zero Int.
Truthy(kind) == kind \in {1, 4}

\* What print leaves on stdout for an operand.
Printed(kind) ==
    CASE kind = 1 -> <<"t", "r", "u", "e">>
      [] kind = 2 -> <<"f", "a", "l", "s", "e">>
      [] kind = 3 -> <<"0">>
      [] kind = 4 -> <<"2">>
      [] kind = 5 -> <<>>
      [] OTHER -> <<"n", "o", "n", "e">>

\* C18: `and` and `or` are eager.  For `let r = f(L) and f(R)` (or `or`),
\* f printing its argument and returning it, once the let has run: f's body
\* has run twice, the output is L's then R's, whatever the truthiness of L,
\* and r is the Bool of the operator over the two truthinesses; with a
\* division by zero as right operand the run has failed with that error,
\* after f(L) ran, even where L alone decides the result.
C18_LogicIsEager ==
    (BindsLogic /\ (Finished \/ pc > 2)) =>
    \A op \in {"And", "Or"}, l \in Operands, r \in RightOperands :
        program = LogicProgram(op, l, r)
            => IF r = 0
               THEN /\ pc = 2
                    /\ outcome = Some(Err("Division by zero"))
                    /\ Count(10) = 1
                    /\ interp.stdout = Printed(l)
                    /\ BoundIn(1, N_r) = NoneOpt
               ELSE /\ pc > 2
                    /\ Count(10) = 2 /\ Count(11) = 2
                    /\ (pc = 3 /\ phase = "run") => interp.stdout = Printed(l) \o Printed(r)
                    /\ BoundIn(1, N_r) =
                           Some(BoolV(IF op = "And" THEN Truthy(l) /\ Truthy(r)
                                      ELSE Truthy(l) \/ Truthy(r)))

\* `f(false) and f(2)` has evaluated both operands, the right one after the
\* left one had decided the result, and r is false.
C18_Witness ==
    /\ program = LogicProgram("And", 2, 4)
    /\ pc = 3 /\ phase = "run"
    /\ Count(10) = 2
    /\ interp.stdout = <<"f", "a", "l", "s", "e", "2">>
    /\ BoundIn(1, N_r) = Some(BoolV(FALSE))

(***************************************************************************)
(* The name a match pattern binds.                                         *)
(***************************************************************************)
\* C19: a pattern that is a name always matches and binds the scrutinee to
\* the name in the current scope while the case body runs; once the match
\* has completed, the current scope's binding of the name is what it was
\* before the match.  For `match 2` with the one case `case y` whose body
\* prints y, at top level or in f, with y bound to 9 before or not: the body
\* has printed 2 and, when the run is over, the scope the match ran in binds
\* y to 9 again, or not at all.
C19_BindingEndsWithMatch ==
    \A prior \in {"none", "let"}, place \in {"top", "function"} :
        (program = BindProgram(prior, place) /\ Finished)
            => /\ FinishedOk
               /\ Count(21) = 1
               /\ interp.stdout = <<"2">> \o N_r
               /\ BoundIn(IF place = "top" THEN 1 ELSE 2, N_y)
                      = IF prior = "let" THEN Some(IntV(9)) ELSE NoneOpt

(***************************************************************************)
(* Assignment to a member.                                                 *)
(***************************************************************************)
\* C20: an assignment through a member-access target updates the instance.
\* With a an instance of the class P and b another name of it, after
\* `a.f = 7` (or `b.f = 7`) the read `let r = a.f` (or `b.f`) yields 7: the
\* run ends well with r bound to 7, the assigned value not being discarded.
C20_MemberAssignmentStores ==
    \A write_via \in {N_a, N_b}, read_via \in {N_a, N_b} :
        (program = MemberProgram(write_via, read_via) /\ Finished)
            => /\ FinishedOk
               /\ Executed(3) /\ Executed(4)
               /\ BoundIn(1, N_r) = Some(IntV(7))

\* Interpreter::run on a program whose last item is a server definition.
InitServe ==
    /\ command = "run"
    /\ phase = "run"
    /\ source = <<>>
    /\ tokens = <<>>
    /\ parsed = NoneOpt
    /\ diagnostics = <<>>
    /\ program \in ServerPrograms
    /\ pc = 1
    /\ interp = Interpreter_new
    /\ result = NoneV
    /\ outcome = NoneOpt
    /\ overflow_checks \in BOOLEAN
    /\ listener = Listener_idle

NextServe == RunItem \/ Listen \/ Serve

SpecServe == InitServe /\ [][NextServe]_vars

(***************************************************************************)
(* Signals and calls.                                                      *)
(***************************************************************************)
\* The third item of the program is a loop that calls f.
LoopCalls ==
    /\ Len(program.items) = 4
    /\ program.items[3].k = "Statement"
    /\ program.items[3].stmt.k \in {"While", "For"}
    /\ program.items[3].stmt.id = 60

\* C23: a break or continue raised in a function body outside every loop of
\* that body stays in the call.  For a loop of n iterations whose body calls
\* such a function f and then prints y, once the loop has run: the run did
\* not fail, the signal executed once per call, each of the n iterations
\* made its call and went on to the statement after the call, and the call
\* made as the value of a let bound an ordinary value (None).
C23_SignalConfinedToCall ==
    (LoopCalls /\ (Finished \/ pc > 3)) =>
    \A chain \in ConfineChains, sig \in ConfineSignals,
       kind \in {"While", "For"}, n \in 1..2, form \in {"Let", "Expr"} :
        program = ConfineProgram(chain, sig, kind, n, form)
            => /\ pc > 3
               /\ Count(10 * (Len(chain) + 1)) = n
               /\ Count(61) = n
               /\ Count(63) = n
               /\ GlobalValue(N_i) = Some(IntV(n))
               /\ form = "Let" => GlobalValue(N_a) = Some(NoneV)

C23_Witness ==
    /\ program = ConfineProgram(<<"If">>, "Break", "For", 2, "Let")
    /\ FinishedOk
    /\ Count(20) = 2 /\ Count(63) = 2
    /\ GlobalValue(N_a) = Some(NoneV)

\* C24: call_function restores the current environment on every exit path.
\* Every call of these runs is made from a top-level item, whose current
\* scope is the global one: once a run has ended, with a value or with a
\* runtime error (raised by the arity check or inside a body), the current
\* scope is the global scope again.
C24_CallRestoresEnvironment ==
    (Finished /\ outcome[1].k \in {"Ok", "Err"}) => interp.env = 1

(***************************************************************************)
(* The list a for loop walks.                                              *)
(***************************************************************************)
\* The second and last item of the program is the for loop over a.
WalksEdited ==
    /\ Len(program.items) = 2
    /\ program.items[2].k = "Statement"
    /\ program.items[2].stmt.k = "For"
    /\ program.items[2].stmt.id = 70

\* The list after the first j edits of c, none when a pop among them found
\* the list empty.
RECURSIVE AfterEdits(_, _, _)
AfterEdits(c, j, list) ==
    IF j = 0 THEN Some(list)
    ELSE LET before == AfterEdits(c, j - 1, list)
         IN  IF ~IsSome(before) \/ (c[j] = 2 /\ Len(before[1]) = 0) THEN NoneOpt
             ELSE Some(Edited(c[j], before[1]))

\* The iteration, of n, in which a pop finds the list empty; 0 when none does.
RECURSIVE FirstFailure(_, _, _, _)
FirstFailure(c, list, it, n) ==
    IF it > n THEN 0
    ELSE LET after == AfterEdits(c, Len(c), list)
         IN  IF IsSome(after) THEN FirstFailure(c, after[1], it + 1, n) ELSE it

\* C25: a for loop iterates over the list as it is at loop start.  For a
\* loop over a list a of n elements whose body appends to, pops from,
\* inserts into or clears a and then prints the target: the loop always
\* ends (the run is never given up on) and the body runs once for each of
\* the n elements a had at entry, in order, printing it; the one thing that
\* ends the loop earlier is the runtime error of a pop on the emptied list.
C25_ForIteratesSnapshot ==
    (WalksEdited /\ (Finished \/ pc > 2)) =>
    \A n \in 0..MaxItems, c \in Choices(1, 4) \cup Choices(MaxEdits, 4) :
        program = SnapshotProgram(n, c)
            => LET entry == [j \in 1..n |-> 5 + j]
                   ff == FirstFailure(c, [j \in 1..n |-> IntV(entry[j])], 1, n)
               IN  IF ff > 0
                   THEN /\ Finished
                        /\ outcome[1] = Err("pop from empty list")
                        /\ Count(75) = ff - 1
                        /\ interp.stdout = PrintedLines(SubSeq(entry, 1, ff - 1), 1)
                   ELSE /\ pc > 2
                        /\ Finished => outcome[1].k = "Ok"
                        /\ Count(75) = n
                        /\ interp.stdout = PrintedLines(entry, 1)

C25_Witness ==
    /\ program = SnapshotProgram(2, <<4, 1>>)
    /\ FinishedOk
    /\ Count(75) = 2
    /\ ContentsOf(N_a) = <<IntV(2)>>

(***************************************************************************)
(* The range of integer arithmetic.                                        *)
(***************************************************************************)
\* The first of the two items of the program is `let r = a op b` or
\* `let r = -a` on integer literals, op being +, -, * or /.
Computes ==
    /\ Len(program.items) = 2
    /\ program.items[1].k = "Statement"
    /\ program.items[1].stmt.k = "Let"
    /\ LET e == program.items[1].stmt.value
       IN  \/ /\ e.k = "BinaryOp"
              /\ e.op \in {"Add", "Sub", "Mul", "Div"}
              /\ e.left.k = "Literal" /\ e.left.lit.k = "Int"
              /\ e.right.k = "Literal" /\ e.right.lit.k = "Int"
           \/ /\ e.k = "UnaryOp"
              /\ e.op = "Neg"
              /\ e.operand.k = "Literal" /\ e.operand.lit.k = "Int"

\* The mathematical result of the computation, none for a division by zero.
Exact ==
    LET e == program.items[1].stmt.value
    IN  CASE e.k = "UnaryOp" -> Some(0 - e.operand.lit.n)
          [] e.op = "Add" -> Some(e.left.lit.n + e.right.lit.n)
          [] e.op = "Sub" -> Some(e.left.lit.n - e.right.lit.n)
          [] e.op = "Mul" -> Some(e.left.lit.n * e.right.lit.n)
          [] OTHER -> IF e.right.lit.n = 0 THEN NoneOpt
                      ELSE Some(TruncDiv(e.left.lit.n, e.right.lit.n))

\* C29: integer arithmetic never leaves the signed range silently.  Once
\* `let r = a + b`, a - b, a * b, a / b or -a has run, r is the exact result
\* when that lies in the range, and otherwise (or on a zero divisor) the
\* run has ended with a runtime error: no value has wrapped around and the
\* process has not been aborted.
C29_ArithmeticStaysInRange ==
    (Computes /\ (Finished \/ pc > 1)) =>
        IF IsSome(Exact) /\ InRange(Exact[1])
        THEN pc > 1 /\ GlobalValue(N_r) = Some(IntV(Exact[1]))
        ELSE Finished /\ outcome[1].k = "Err"

(***************************************************************************)
(* Lexer (lexer.rs).  A token is a record tagged by k, the name of the     *)
(* Token variant, with s or n for the variants that carry a text or a      *)
(* number; a TokenInfo adds the line and column tokenize computes.         *)
(***************************************************************************)
Tok(k) == [k |-> k]
TokS(k, s) == [k |-> k, s |-> s]
TokN(k, n) == [k |-> k, n |-> n]

\* #[token("...")] of the keywords
Keywords ==
    <<"d", "e", "f">> :> "Def" @@
    <<"f", "n">> :> "Fn" @@
    <<"l", "e", "t">> :> "Let" @@
    <<"c", "o", "n", "s", "t">> :> "Const" @@
    <<"i", "f">> :> "If" @@
    <<"e", "l", "s", "e">> :> "Else" @@
    <<"e", "l", "i", "f">> :> "Elif" @@
    <<"f", "o", "r">> :> "For" @@
    <<"w", "h", "i", "l", "e">> :> "While" @@
    <<"r", "e", "t", "u", "r", "n">> :> "Return" @@
    <<"i", "m", "p", "o", "r", "t">> :> "Import" @@
    <<"f", "r", "o", "m">> :> "From" @@
    <<"a", "s">> :> "As" @@
    <<"c", "l", "a", "s", "s">> :> "Class" @@
    <<"s", "t", "r", "u", "c", "t">> :> "Struct" @@
    <<"e", "n", "u", "m">> :> "Enum" @@
    <<"m", "a", "t", "c", "h">> :> "Match" @@
    <<"c", "a", "s", "e">> :> "Case" @@
    <<"b", "r", "e", "a", "k">> :> "Break" @@
    <<"c", "o", "n", "t", "i", "n", "u", "e">> :> "Continue" @@
    <<"p", "a", "s", "s">> :> "Pass" @@
    <<"a", "s", "y", "n", "c">> :> "Async" @@
    <<"a", "w", "a", "i", "t">> :> "Await" @@
    <<"y", "i", "e", "l", "d">> :> "Yield" @@
    <<"t", "r", "u", "e">> :> "True" @@
    <<"f", "a", "l", "s", "e">> :> "False" @@
    <<"n", "o", "n", "e">> :> "None" @@
    <<"a", "n", "d">> :> "And" @@
    <<"o", "r">> :> "Or" @@
    <<"n", "o", "t">> :> "Not" @@
    <<"i", "n">> :> "In" @@
    <<"i", "s">> :> "Is" @@
    <<"c", "o", "m", "p", "o", "n", "e", "n", "t">> :> "Component" @@
    <<"s", "e", "r", "v", "e", "r">> :> "Server" @@
    <<"r", "o", "u", "t", "e">> :> "Route" @@
    <<"t", "e", "s", "t">> :> "Test" @@
    <<"a", "s", "s", "e", "r", "t">> :> "Assert" @@
    <<"s", "e", "l", "f">> :> "SelfKw" @@
    <<"s", "u", "p", "e", "r">> :> "Super" @@
    <<"r", "e", "n", "d", "e", "r">> :> "Render" @@
    <<"s", "t", "a", "t", "e">> :> "State" @@
    <<"p", "r", "o", "p", "s">> :> "Props"

LowerChars == {"a", "b", "c", "d", "e", "f", "g", "h", "i", "j", "k", "l", "m",
               "n", "o", "p", "q", "r", "s", "t", "u", "v", "w", "x", "y", "z"}
UpperChars == {"A", "B", "C", "D", "E", "F", "G", "H", "I", "J", "K", "L", "M",
               "N", "O", "P", "Q", "R", "S", "T", "U", "V", "W", "X", "Y", "Z"}
DigitSet == {DigitChars[i] : i \in DOMAIN DigitChars}
\* [a-zA-Z_] and [a-zA-Z0-9_]
IdentStart == LowerChars \cup UpperChars \cup {"_"}
IdentChars == IdentStart \cup DigitSet

\* The first position from i on whose character is not in the set.
RECURSIVE SpanEnd(_, _, _)
SpanEnd(src, i, set) ==
    IF i <= Len(src) /\ src[i] \in set THEN SpanEnd(src, i + 1, set) ELSE i

\* The first position from i on whose character is c (past the end if none).
RECURSIVE Find(_, _, _)
Find(src, i, c) ==
    IF i <= Len(src) /\ src[i] # c THEN Find(src, i + 1, c) ELSE i

\* str::parse::<i64> of a run of digits: None when it does not fit
RECURSIVE ParseDigits(_, _)
ParseDigits(digits, acc) ==
    IF Len(digits) = 0 THEN Some(acc)
    ELSE LET d == CHOOSE n \in 0..9 : DigitChars[n + 1] = digits[1]
         IN  IF acc * 10 + d > IntMax THEN NoneOpt
             ELSE ParseDigits(Tail(digits), acc * 10 + d)

At(src, i) == IF i <= Len(src) THEN src[i] ELSE ""

\* #[token("...")] of the operators and brackets, two characters before one
Operator2(a, b) ==
    CASE a = "=" /\ b = "=" -> "Eq"
      [] a = "!" /\ b = "=" -> "NotEq"
      [] a = "<" /\ b = "=" -> "LtEq"
      [] a = ">" /\ b = "=" -> "GtEq"
      [] a = "-" /\ b = ">" -> "Arrow"
      [] a = "." /\ b = "." -> "DotDot"
      [] a = "/" /\ b = ">" -> "SelfClose"
      [] a = "<" /\ b = "/" -> "CloseTag"
      [] OTHER -> ""
Operator1(a) ==
    CASE a = "+" -> "Plus"
      [] a = "-" -> "Minus"
      [] a = "*" -> "Star"
      [] a = "/" -> "Slash"
      [] a = "%" -> "Percent"
      [] a = "=" -> "Assign"
      [] a = "<" -> "Lt"
      [] a = ">" -> "Gt"
      [] a = ":" -> "Colon"
      [] a = "," -> "Comma"
      [] a = "." -> "Dot"
      [] a = "(" -> "LParen"
      [] a = ")" -> "RParen"
      [] a = "[" -> "LBracket"
      [] a = "]" -> "RBracket"
      [] a = "{" -> "LBrace"
      [] a = "}" -> "RBrace"
      [] OTHER -> "Error"

\* The token at position i of the source (k = "Skip" for what logos skips:
\* a single space, a comment) and the position after it.  An unterminated
\* string, for which the error token's extent is the lexer library's own
\* affair, is marked Unmodelled and kept out of the inputs.
NextToken(src, i) ==
    LET c == src[i]
        id_end == SpanEnd(src, i, IdentChars)
        word == SubSeq(src, i, id_end - 1)
        num_end == SpanEnd(src, i, DigitSet)
        frac_end == SpanEnd(src, num_end + 1, DigitSet)
        parsed_int == ParseDigits(SubSeq(src, i, num_end - 1), 0)
        quote == Find(src, i + 1, "\"")
    IN  CASE c = " " ->
                IF At(src, i + 1) = " " /\ At(src, i + 2) = " " /\ At(src, i + 3) = " "
                THEN [tok |-> Tok("Tab"), end |-> i + 4]
                ELSE [tok |-> Tok("Skip"), end |-> i + 1]
          [] c = "\t" -> [tok |-> Tok("Tab"), end |-> i + 1]
          [] c = "\n" -> [tok |-> Tok("Newline"), end |-> i + 1]
          [] c = "#" -> [tok |-> Tok("Skip"), end |-> Find(src, i, "\n")]
          [] c \in DigitSet ->
                IF At(src, num_end) = "." /\ At(src, num_end + 1) \in DigitSet
                THEN [tok |-> TokS("FloatLiteral", SubSeq(src, i, frac_end - 1)),
                      end |-> frac_end]
                ELSE IF IsSome(parsed_int)
                THEN [tok |-> TokN("IntLiteral", parsed_int[1]), end |-> num_end]
                ELSE [tok |-> Tok("Error"), end |-> num_end]
          [] c = "\"" ->
                IF quote <= Len(src)
                THEN [tok |-> TokS("StringLiteral", SubSeq(src, i + 1, quote - 1)),
                      end |-> quote + 1]
                ELSE [tok |-> Tok("Unmodelled"), end |-> Len(src) + 1]
          [] c \in IdentStart ->
                IF word \in DOMAIN Keywords
                THEN [tok |-> Tok(Keywords[word]), end |-> id_end]
                ELSE [tok |-> TokS("Identifier", word), end |-> id_end]
          [] Operator2(c, At(src, i + 1)) # "" ->
                [tok |-> Tok(Operator2(c, At(src, i + 1))), end |-> i + 2]
          [] OTHER -> [tok |-> Tok(Operator1(c)), end |-> i + 1]

\* logos' next(): the next token that is not skipped, with its span (a Skip
\* comes out only when the source ends in skipped text, where next() is None)
RECURSIVE Lexer_next(_, _)
Lexer_next(src, i) ==
    LET t == NextToken(src, i)
    IN  IF t.tok.k = "Skip" /\ t.end <= Len(src) THEN Lexer_next(src, t.end)
        ELSE [tok |-> t.tok, start |-> i, end |-> t.end]

\* Lexer::tokenize, one turn of `while let Some(result) = self.inner.next()`
\* on the lexer l = [pos, line, line_start, tokens] (positions count from 1
\* here, so the column is span.start - line_start + 1 with both one higher).
tokenize_step(src, l) ==
    LET t == Lexer_next(src, l.pos)
        info == [token |-> t.tok, line |-> l.line, column |-> t.start - l.line_start + 1]
    IN  IF t.tok.k = "Skip" THEN [l EXCEPT !.pos = t.end]
        ELSE IF t.tok.k = "Newline"
        THEN [pos |-> t.end, line |-> l.line + 1, line_start |-> t.end,
              tokens |-> Append(l.tokens, info)]
        ELSE [l EXCEPT !.pos = t.end, !.tokens = Append(@, info)]

\* Lexer::tokenize, the turns of the loop up to the one that pushes a Newline
\* (the token at a line feed is always Newline)
RECURSIVE tokenize_line(_, _)
tokenize_line(src, l) ==
    IF l.pos > Len(src) THEN l
    ELSE IF src[l.pos] = "\n" THEN tokenize_step(src, l)
    ELSE tokenize_line(src, tokenize_step(src, l))

\* Lexer::tokenize: the loop, line after line until the source is used up
RECURSIVE tokenize_from(_, _)
tokenize_from(src, l) ==
    IF l.pos > Len(src) THEN l.tokens ELSE tokenize_from(src, tokenize_line(src, l))

\* Lexer::new(source).tokenize()
tokenize(src) ==
    tokenize_from(src, [pos |-> 1, line |-> 1, line_start |-> 1, tokens |-> <<>>])

(***************************************************************************)
(* Parser (parser.rs).  A parser state is [current, indent_level] over the *)
(* token list `tokens`; every parse function yields the state it leaves    *)
(* and Ok(value) or Err(message).  The id of a statement is the index of   *)
(* its first token.  Class, component and server definitions are not       *)
(* modelled.                                                               *)
(***************************************************************************)
Parser_new == [current |-> 0, indent_level |-> 0]

is_at_end(p) == p.current >= Len(tokens)
peek_token(p) == IF is_at_end(p) THEN NoneOpt ELSE Some(tokens[p.current + 1].token)
\* the variant of the next token ("" at the end)
PeekKind(p) == IF is_at_end(p) THEN "" ELSE tokens[p.current + 1].token.k
check(p, k) == ~is_at_end(p) /\ PeekKind(p) = k
advance(p) == IF is_at_end(p) THEN p ELSE [p EXCEPT !.current = @ + 1]
\* match_token: the state after it (the token consumed when it matched)
match_token(p, k) == IF check(p, k) THEN advance(p) ELSE p
consume(p, k, message) ==
    IF check(p, k) THEN R(advance(p), Ok(tokens[p.current + 1])) ELSE R(p, Err(message))
consume_identifier(p, message) ==
    IF check(p, "Identifier") THEN R(advance(p), Ok(tokens[p.current + 1].token.s))
    ELSE R(p, Err(message))

T_List == <<"L", "i", "s", "t">>
T_Int == <<"I", "n", "t">>
T_Float == <<"F", "l", "o", "a", "t">>
T_Bool == <<"B", "o", "o", "l">>
T_Str == <<"S", "t", "r">>

\* parse_type_annotation: `while !check(Gt) && !is_at_end() { advance() }`
RECURSIVE SkipToGt(_)
SkipToGt(p) == IF ~check(p, "Gt") /\ ~is_at_end(p) THEN SkipToGt(advance(p)) ELSE p

\* The functions of the parser call one another through Descend, which takes the
\* name of the function called and its arguments.
RECURSIVE Descend(_, _)

RECURSIVE parse_type_annotation(_)
parse_type_annotation(p) ==
    LET name == consume_identifier(p, "Expect type name")
        after == name.st
    IN  IF name.err THEN name
        ELSE IF name.r.v = T_List
        THEN (IF check(after, "Lt")
              THEN LET inner == parse_type_annotation(advance(after))
                       gt == consume(inner.st, "Gt", "Expect '>' after generic type")
                   IN  IF inner.err THEN inner
                       ELSE IF gt.err THEN gt
                       ELSE R(gt.st, Ok([t |-> "List", inner |-> inner.r.v]))
              ELSE R(after, Err("Expect generic argument for List")))
        ELSE LET generic == IF check(after, "Lt")
                            THEN consume(SkipToGt(advance(after)), "Gt",
                                         "Expect '>' after generic args")
                            ELSE R(after, Ok(NoneV))
             IN  IF generic.err THEN generic
                 ELSE R(generic.st,
                        Ok(CASE name.r.v = T_Int -> [t |-> "Int"]
                             [] name.r.v = T_Float -> [t |-> "Float"]
                             [] name.r.v = T_Bool -> [t |-> "Bool"]
                             [] name.r.v = T_Str -> [t |-> "Str"]
                             [] OTHER -> [t |-> "Custom", name |-> name.r.v]))

RECURSIVE parse_binary(_, _)
RECURSIVE binary_rest(_, _, _)
RECURSIVE binary_levels(_, _, _)
RECURSIVE parse_unary(_)
RECURSIVE expression_list(_, _)
RECURSIVE postfix_rest(_, _)
RECURSIVE parse_atom(_)
RECURSIVE list_elements(_, _)
RECURSIVE jsx_attributes(_, _)
RECURSIVE jsx_children(_, _)

\* The operator a token stands for at a level of the grammar: 1 parse_logic_or,
\* 2 parse_logic_and, 3 parse_equality, 4 parse_comparison, 5 parse_term,
\* 6 parse_factor ("" when the token is no operator of the level).
BinaryOpOf(level, k) ==
    CASE level = 1 /\ k = "Or" -> "Or"
      [] level = 2 /\ k = "And" -> "And"
      [] level = 3 /\ k = "Eq" -> "Eq"
      [] level = 3 /\ k = "NotEq" -> "Ne"
      [] level = 4 /\ k = "Lt" -> "Lt"
      [] level = 4 /\ k = "Gt" -> "Gt"
      [] level = 4 /\ k = "LtEq" -> "Le"
      [] level = 4 /\ k = "GtEq" -> "Ge"
      [] level = 5 /\ k = "Plus" -> "Add"
      [] level = 5 /\ k = "Minus" -> "Sub"
      [] level = 6 /\ k = "Star" -> "Mul"
      [] level = 6 /\ k = "Slash" -> "Div"
      [] level = 6 /\ k = "Percent" -> "Mod"
      [] OTHER -> ""

\* parse_logic_or ... parse_factor, the levels 1 to 6: an operand of the next
\* level, then `while match_token(operator) { right operand }`.  Each level
\* starts by calling the next, so the first operand of all of them is what
\* parse_unary yields; binary_levels runs the loops from parse_factor up to
\* the level asked for, an error ending them all as `?` does.
parse_binary(level, p) == binary_levels(6, level, parse_unary(p))
binary_levels(cur, level, left) ==
    IF left.err THEN left
    ELSE IF cur < level THEN left
    ELSE binary_levels(cur - 1, level, binary_rest(cur, left.r.v, left.st))
\* the loop of one level, left-associative
binary_rest(level, left, p) ==
    LET op == BinaryOpOf(level, PeekKind(p))
        right == parse_binary(level + 1, advance(p))
    IN  IF op = "" THEN R(p, Ok(left))
        ELSE IF right.err THEN right
        ELSE binary_rest(level, E_Bin(op, left, right.r.v), right.st)

parse_expression(p) == parse_binary(1, p)

\* is_arg_start
is_arg_start(p) ==
    PeekKind(p) \in {"Identifier", "IntLiteral", "StringLiteral", "FloatLiteral",
                     "LParen", "LBrace", "LBracket", "SelfKw"}

\* `loop { args.push(parse_expression()?); if !match_token(Comma) { break } }`
expression_list(p, acc) ==
    LET e == Descend("parse_expression", <<p>>)
    IN  IF e.err THEN e
        ELSE IF check(e.st, "Comma") THEN expression_list(advance(e.st), Append(acc, e.r.v))
        ELSE R(e.st, Ok(Append(acc, e.r.v)))

\* parse_call: command-style arguments after the callee
parse_call(p) ==
    LET func == Descend("parse_postfix", <<p>>)
        args == Descend("expression_list", <<func.st, <<>>>>)
    IN  IF func.err THEN func
        ELSE IF ~is_arg_start(func.st) THEN func
        ELSE IF args.err THEN args
        ELSE R(args.st, Ok(E_Call(func.r.v, args.r.v)))

\* parse_unary
parse_unary(p) ==
    IF check(p, "Minus") \/ check(p, "Not")
    THEN LET operand == parse_unary(advance(p))
         IN  IF operand.err THEN operand
             ELSE R(operand.st,
                    Ok(E_Un(IF check(p, "Minus") THEN "Neg" ELSE "Not", operand.r.v)))
    ELSE parse_call(p)

\* parse_postfix: member accesses and parenthesised calls
parse_postfix(p) ==
    LET atom == parse_atom(p)
    IN  IF atom.err THEN atom ELSE postfix_rest(atom.r.v, atom.st)
postfix_rest(expr, p) ==
    IF check(p, "Dot")
    THEN LET member == consume_identifier(advance(p), "Expect member name")
         IN  IF member.err THEN member
             ELSE postfix_rest(E_Member(expr, member.r.v), member.st)
    ELSE IF check(p, "LParen")
    THEN LET args == IF check(advance(p), "RParen") THEN R(advance(p), Ok(<<>>))
                     ELSE Descend("expression_list", <<advance(p), <<>>>>)
             close == consume(args.st, "RParen", "Expect ')' after arguments")
         IN  IF args.err THEN args
             ELSE IF close.err THEN close
             ELSE postfix_rest(E_Call(expr, args.r.v), close.st)
    ELSE R(p, Ok(expr))

\* `while self.match_token(Token::Newline) {}`
RECURSIVE SkipNewlines(_)
SkipNewlines(p) == IF check(p, "Newline") THEN SkipNewlines(advance(p)) ELSE p

\* parse_atom, the loop over the elements of a list literal
list_elements(p, acc) ==
    LET e == Descend("parse_expression", <<SkipNewlines(p)>>)
        after == SkipNewlines(e.st)
    IN  IF e.err THEN e
        ELSE IF check(after, "Comma") THEN list_elements(advance(after), Append(acc, e.r.v))
        ELSE R(after, Ok(Append(acc, e.r.v)))

\* parse_atom
parse_atom(p) ==
    LET k == PeekKind(p)
        q == advance(p)
    IN  CASE k = "SelfKw" -> R(q, Ok(E_Id(<<"s", "e", "l", "f">>)))
          [] k = "Lt" ->
                LET element == Descend("parse_jsx_element", <<q>>)
                IN  IF element.err THEN element
                    ELSE R(element.st, Ok(E_Jsx(element.r.v)))
          [] k = "LBracket" ->
                LET elements == IF check(q, "RBracket") THEN R(q, Ok(<<>>))
                                ELSE Descend("list_elements", <<q, <<>>>>)
                    close == consume(SkipNewlines(elements.st), "RBracket",
                                     "Expect ']' after list elements")
                IN  IF elements.err THEN elements
                    ELSE IF close.err THEN close
                    ELSE R(close.st, Ok(E_List(elements.r.v)))
          [] k = "LParen" ->
                LET expr == Descend("parse_expression", <<q>>)
                    close == consume(expr.st, "RParen", "Expect ')' after expression")
                IN  IF expr.err THEN expr
                    ELSE IF close.err THEN close
                    ELSE R(close.st, Ok(expr.r.v))
          [] k = "Identifier" -> R(q, Ok(E_Id(tokens[p.current + 1].token.s)))
          [] k = "IntLiteral" -> R(q, Ok(E_Int(tokens[p.current + 1].token.n)))
          [] k = "FloatLiteral" -> R(q, Ok(E_Float(tokens[p.current + 1].token.s)))
          [] k = "StringLiteral" -> R(q, Ok(E_Str(tokens[p.current + 1].token.s)))
          [] k = "True" -> R(q, Ok(E_Bool(TRUE)))
          [] k = "False" -> R(q, Ok(E_Bool(FALSE)))
          [] k = "None" -> R(q, Ok(E_None))
          [] OTHER -> R(p, ErrA("Expect expression, got", peek_token(p)))

\* parse_jsx_element, a spread attribute: `while !check(RBrace) && !is_at_end() { advance() }`
RECURSIVE SkipToRBrace(_)
SkipToRBrace(p) ==
    IF check(p, "RBrace") \/ is_at_end(p) THEN p ELSE SkipToRBrace(advance(p))

\* parse_jsx_element, the loop over the attributes of the opening tag
jsx_attributes(p, attributes) ==
    IF check(p, "Gt") \/ check(p, "SelfClose") \/ is_at_end(p) THEN R(p, Ok(attributes))
    ELSE IF check(p, "Identifier")
    THEN LET name == tokens[p.current + 1].token.s
             q == advance(p)
             v == advance(q)
         IN  IF ~check(q, "Assign")
             THEN jsx_attributes(q, Append(attributes, JsxAttribute(name, NoneOpt)))
             ELSE IF check(v, "StringLiteral")
             THEN jsx_attributes(advance(v),
                     Append(attributes,
                            JsxAttribute(name, Some(E_Str(tokens[v.current + 1].token.s)))))
             ELSE IF check(v, "LBrace")
             THEN LET expr == Descend("parse_expression", <<advance(v)>>)
                  IN  IF expr.err THEN expr
                      ELSE jsx_attributes(match_token(expr.st, "RBrace"),
                              Append(attributes, JsxAttribute(name, Some(expr.r.v))))
             ELSE jsx_attributes(v, Append(attributes, JsxAttribute(name, NoneOpt)))
    ELSE IF check(p, "LBrace")
    THEN jsx_attributes(match_token(SkipToRBrace(advance(advance(p))), "RBrace"), attributes)
    ELSE jsx_attributes(advance(p), attributes)

\* parse_jsx_element, the loop over the children up to the closing tag
jsx_children(p, children) ==
    IF check(p, "CloseTag") \/ is_at_end(p) THEN R(p, Ok(children))
    ELSE IF check(p, "Lt")
    THEN LET child == Descend("parse_jsx_element", <<advance(p)>>)
         IN  IF child.err THEN child
             ELSE jsx_children(child.st, Append(children, JsxChildElement(child.r.v)))
    ELSE IF check(p, "LBrace")
    THEN LET expr == Descend("parse_expression", <<advance(p)>>)
         IN  IF expr.err THEN expr
             ELSE jsx_children(match_token(expr.st, "RBrace"),
                               Append(children, JsxChildExpression(expr.r.v)))
    ELSE IF check(p, "StringLiteral") \/ check(p, "Identifier")
    THEN jsx_children(advance(p), Append(children, JsxText(tokens[p.current + 1].token.s)))
    ELSE jsx_children(advance(p), children)

\* parse_jsx_element
parse_jsx_element(p) ==
    LET tag == consume_identifier(p, "Expect tag name")
        attributes == Descend("jsx_attributes", <<tag.st, <<>>>>)
        open == consume(attributes.st, "Gt", "Expect '>'")
        children == Descend("jsx_children", <<open.st, <<>>>>)
        close == consume(children.st, "CloseTag", "Expect '</'")
        close_tag == consume_identifier(close.st, "Expect close tag name")
        last == consume(close_tag.st, "Gt", "Expect '>' after close tag")
    IN  IF tag.err THEN tag
        ELSE IF attributes.err THEN attributes
        ELSE IF check(attributes.st, "SelfClose")
        THEN R(advance(attributes.st), Ok(JsxElement(tag.r.v, attributes.r.v, <<>>)))
        ELSE IF open.err THEN open
        ELSE IF children.err THEN children
        ELSE IF close.err THEN close
        ELSE IF close_tag.err THEN close_tag
        ELSE IF tag.r.v # close_tag.r.v THEN R(close_tag.st, ErrA("Tag mismatch", tag.r.v))
        ELSE IF last.err THEN last
        ELSE R(last.st, Ok(JsxElement(tag.r.v, attributes.r.v, children.r.v)))

(***************************************************************************)
(* Statements, blocks and items.  A statement's id is the position of its  *)
(* first token, which is what tells two statements of a program apart.     *)
(***************************************************************************)
RECURSIVE block_loop(_, _, _)
RECURSIVE parse_if(_, _)

\* count_indent: the Tab tokens at the head of the current line
RECURSIVE count_indent(_)
count_indent(p) == IF check(p, "Tab") THEN 1 + count_indent(advance(p)) ELSE 0

\* parse_block: an indented block of statements
parse_block(p) == Descend("parse_indented_block", <<p, "statement">>)

\* parse_let and parse_const (kind is "Let" or "Const")
parse_let(p, id, kind) ==
    LET name == consume_identifier(p, "Expect variable name")
        annotation == IF check(name.st, "Colon")
                      THEN LET ty == Descend("parse_type_annotation", <<advance(name.st)>>)
                           IN  IF ty.err THEN ty ELSE R(ty.st, Ok(Some(ty.r.v)))
                      ELSE R(name.st, Ok(NoneOpt))
        assign == consume(annotation.st, "Assign", "Expect '=' after variable name")
        value == Descend("parse_expression", <<assign.st>>)
    IN  IF name.err THEN name
        ELSE IF annotation.err THEN annotation
        ELSE IF assign.err THEN assign
        ELSE IF value.err THEN value
        ELSE R(match_token(value.st, "Newline"),
               Ok(IF kind = "Let" THEN S_LetT(id, name.r.v, annotation.r.v, value.r.v)
                  ELSE S_Const(id, name.r.v, annotation.r.v, value.r.v)))

\* parse_state_decl
parse_state_decl(p, id) ==
    LET name == consume_identifier(p, "Expect state name")
        assign == consume(name.st, "Assign", "Expect '='")
        value == Descend("parse_expression", <<assign.st>>)
    IN  IF name.err THEN name
        ELSE IF assign.err THEN assign
        ELSE IF value.err THEN value
        ELSE R(match_token(value.st, "Newline"), Ok(S_State(id, name.r.v, value.r.v)))

\* parse_render_block
parse_render_block(p, id) ==
    LET newline == consume(p, "Newline", "Expect newline after render")
        body == Descend("parse_block", <<newline.st>>)
    IN  IF newline.err THEN newline
        ELSE IF body.err THEN body
        ELSE R(body.st, Ok(S_Render(id, body.r.v)))

\* parse_pattern
parse_pattern(p) ==
    LET k == PeekKind(p)
        token == tokens[p.current + 1].token
    IN  CASE k = "IntLiteral" -> R(advance(p), Ok(P_Literal([k |-> "Int", n |-> token.n])))
          [] k = "StringLiteral" -> R(advance(p), Ok(P_Literal([k |-> "Str", s |-> token.s])))
          [] k = "True" -> R(advance(p), Ok(P_Literal([k |-> "Bool", b |-> TRUE])))
          [] k = "False" -> R(advance(p), Ok(P_Literal([k |-> "Bool", b |-> FALSE])))
          [] k = "Identifier" ->
                R(advance(p), Ok(IF token.s = <<"_">> THEN P_Wildcard ELSE P_Identifier(token.s)))
          [] OTHER -> R(p, Err("Invalid pattern"))

\* parse_match, the closure that parses one case of the block
parse_case(p) ==
    LET pattern == Descend("parse_pattern", <<advance(p)>>)
        newline == consume(pattern.st, "Newline", "Expect newline after case pattern")
        body == Descend("parse_block", <<newline.st>>)
    IN  IF ~check(p, "Case") THEN R(p, Ok(NoneOpt))
        ELSE IF pattern.err THEN pattern
        ELSE IF newline.err THEN newline
        ELSE IF body.err THEN body
        ELSE R(body.st, Ok(Some(MatchCase(pattern.r.v, body.r.v))))

\* parse_match
parse_match(p, id) ==
    LET value == Descend("parse_expression", <<p>>)
        newline == consume(value.st, "Newline", "Expect newline after match value")
        cases == Descend("parse_indented_block", <<newline.st, "case">>)
    IN  IF value.err THEN value
        ELSE IF newline.err THEN newline
        ELSE IF cases.err THEN cases
        ELSE R(cases.st, Ok(S_Match(id, value.r.v, cases.r.v)))

\* parse_if: `else` and `elif` are looked for right after the then-block
parse_if(p, id) ==
    LET condition == Descend("parse_expression", <<p>>)
        newline == consume(condition.st, "Newline", "Expect newline after if condition")
        then_block == Descend("parse_block", <<newline.st>>)
        after == then_block.st
        else_newline == consume(advance(after), "Newline", "Expect newline after else")
        else_block == Descend("parse_block", <<else_newline.st>>)
        elif_stmt == parse_if(advance(after), after.current + 1)
    IN  IF condition.err THEN condition
        ELSE IF newline.err THEN newline
        ELSE IF then_block.err THEN then_block
        ELSE IF check(after, "Else")
        THEN (IF else_newline.err THEN else_newline
              ELSE IF else_block.err THEN else_block
              ELSE R(else_block.st,
                     Ok(S_If(id, condition.r.v, then_block.r.v, Some(else_block.r.v)))))
        ELSE IF check(after, "Elif")
        THEN (IF elif_stmt.err THEN elif_stmt
              ELSE R(elif_stmt.st,
                     Ok(S_If(id, condition.r.v, then_block.r.v, Some(<<elif_stmt.r.v>>)))))
        ELSE R(after, Ok(S_If(id, condition.r.v, then_block.r.v, NoneOpt)))

\* parse_while
parse_while(p, id) ==
    LET condition == Descend("parse_expression", <<p>>)
        newline == consume(condition.st, "Newline", "Expect newline after while condition")
        body == Descend("parse_block", <<newline.st>>)
    IN  IF condition.err THEN condition
        ELSE IF newline.err THEN newline
        ELSE IF body.err THEN body
        ELSE R(body.st, Ok(S_While(id, condition.r.v, body.r.v)))

\* parse_for
parse_for(p, id) ==
    LET target == consume_identifier(p, "Expect for loop variable")
        in == consume(target.st, "In", "Expect 'in' after for loop variable")
        iterator == Descend("parse_expression", <<in.st>>)
        newline == consume(iterator.st, "Newline", "Expect newline after for loop header")
        body == Descend("parse_block", <<newline.st>>)
    IN  IF target.err THEN target
        ELSE IF in.err THEN in
        ELSE IF iterator.err THEN iterator
        ELSE IF newline.err THEN newline
        ELSE IF body.err THEN body
        ELSE R(body.st, Ok(S_For(id, target.r.v, iterator.r.v, body.r.v)))

\* parse_statement: Ok(Some(statement)), or Ok(None) when no statement starts
\* here.  A failed attempt at an expression statement is dropped (`if let
\* Ok(expr)`) with the tokens it consumed not given back.
parse_statement(p) ==
    LET k == PeekKind(p)
        id == p.current + 1
        q == advance(p)
        some(res) == IF res.err THEN res ELSE R(res.st, Ok(Some(res.r.v)))
    IN  CASE k = "Let" -> some(Descend("parse_let", <<q, id, "Let">>))
          [] k = "Const" -> some(Descend("parse_let", <<q, id, "Const">>))
          [] k = "State" -> some(Descend("parse_state_decl", <<q, id>>))
          [] k = "Render" -> some(Descend("parse_render_block", <<q, id>>))
          [] k = "Return" ->
                LET expr == IF check(q, "Newline") THEN R(q, Ok(NoneOpt))
                            ELSE some(Descend("parse_expression", <<q>>))
                    newline == consume(expr.st, "Newline", "Expect newline after return")
                IN  IF expr.err THEN expr
                    ELSE IF newline.err THEN newline
                    ELSE R(newline.st, Ok(Some(S_Return(id, expr.r.v))))
          [] k = "Break" -> R(match_token(q, "Newline"), Ok(Some(S_Break(id))))
          [] k = "Continue" -> R(match_token(q, "Newline"), Ok(Some(S_Continue(id))))
          [] k = "If" -> some(Descend("parse_if", <<q, id>>))
          [] k = "While" -> some(Descend("parse_while", <<q, id>>))
          [] k = "For" -> some(Descend("parse_for", <<q, id>>))
          [] k = "Match" -> some(Descend("parse_match", <<q, id>>))
          [] OTHER ->
                LET expr == Descend("parse_expression", <<p>>)
                    value == Descend("parse_expression", <<advance(expr.st)>>)
                IN  IF expr.err THEN R(expr.st, Ok(NoneOpt))
                    ELSE IF check(expr.st, "Assign")
                    THEN (IF value.err THEN value
                          ELSE R(match_token(value.st, "Newline"),
                                 Ok(Some(S_Assign(id, expr.r.v, value.r.v)))))
                    ELSE R(match_token(expr.st, "Newline"), Ok(Some(S_Expr(id, expr.r.v))))

\* parse_indented_block, the loop over the lines of the block (parse_fn is
\* "statement" for parse_statement and "case" for the closure of parse_match)
block_loop(p, parse_fn, items) ==
    LET current_indent == count_indent(p)
        q == [p EXCEPT !.current = @ + current_indent]
        item == IF parse_fn = "statement" THEN Descend("parse_statement", <<q>>) ELSE Descend("parse_case", <<q>>)
    IN  IF is_at_end(p) \/ current_indent < p.indent_level THEN R(p, Ok(items))
        ELSE IF check(q, "Newline") THEN block_loop(advance(q), parse_fn, items)
        ELSE IF item.err THEN item
        ELSE IF IsSome(item.r.v) THEN block_loop(item.st, parse_fn, Append(items, item.r.v[1]))
        ELSE R(item.st, Ok(items))

\* A faulty parse_indented_block: the depth raised on entry is not lowered
\* when the block ends.
parse_indented_block_keeping_depth(p, parse_fn) ==
    Descend("block_loop", <<[p EXCEPT !.indent_level = @ + 1], parse_fn, <<>>>>)

\* parse_indented_block
parse_indented_block(p, parse_fn) ==
    LET block == Descend("block_loop", <<[p EXCEPT !.indent_level = @ + 1], parse_fn, <<>>>>)
    IN  IF block.err THEN block
        ELSE R([block.st EXCEPT !.indent_level = @ - 1], block.r)

\* parse_function_def, the loop over the parameters of the signature
RECURSIVE parse_params(_, _, _)
parse_params(p, params, param_types) ==
    LET q == advance(p)
        ty == Descend("parse_type_annotation", <<advance(q)>>)
    IN  IF check(p, "Newline") \/ check(p, "Arrow") \/ check(p, "Colon") \/ is_at_end(p)
           \/ ~check(p, "Identifier")
        THEN R(p, Ok([params |-> params, param_types |-> param_types]))
        ELSE IF ~check(q, "Colon")
        THEN parse_params(match_token(q, "Comma"),
                          Append(params, tokens[p.current + 1].token.s),
                          Append(param_types, NoneOpt))
        ELSE IF ty.err THEN ty
        ELSE parse_params(match_token(ty.st, "Comma"),
                          Append(params, tokens[p.current + 1].token.s),
                          Append(param_types, Some(ty.r.v)))

\* parse_function_def (`def` is consumed already)
parse_function_def(p) ==
    LET name == consume_identifier(p, "Expect function name")
        signature == Descend("parse_params", <<name.st, <<>>, <<>>>>)
        return_type == IF check(signature.st, "Arrow")
                       THEN LET ty == Descend("parse_type_annotation", <<advance(signature.st)>>)
                            IN  IF ty.err THEN ty ELSE R(ty.st, Ok(Some(ty.r.v)))
                       ELSE R(signature.st, Ok(NoneOpt))
        newline == consume(return_type.st, "Newline",
                           "Expect newline after function signature")
        body == Descend("parse_block", <<newline.st>>)
    IN  IF name.err THEN name
        ELSE IF signature.err THEN signature
        ELSE IF return_type.err THEN return_type
        ELSE IF newline.err THEN newline
        ELSE IF body.err THEN body
        ELSE R(body.st, Ok(FunctionDefT(name.r.v, signature.r.v.params,
                                        signature.r.v.param_types, return_type.r.v,
                                        body.r.v)))

\* parse_import
parse_import(p) ==
    LET module == consume_identifier(p, "Expect module name")
        alias == consume_identifier(advance(module.st), "Expect alias name")
    IN  IF module.err THEN module
        ELSE IF ~check(module.st, "As") THEN R(match_token(module.st, "Newline"), Ok(I_Import))
        ELSE IF alias.err THEN alias
        ELSE R(match_token(alias.st, "Newline"), Ok(I_Import))

\* parse_from_import, the loop over the imported names
RECURSIVE import_names(_)
import_names(p) ==
    LET name == consume_identifier(p, "Expect import name")
    IN  IF name.err THEN name
        ELSE IF check(name.st, "Comma") THEN import_names(advance(name.st))
        ELSE R(match_token(name.st, "Newline"), Ok(I_Import))

\* parse_from_import
parse_from_import(p) ==
    LET module == consume_identifier(p, "Expect module name")
        import == consume(module.st, "Import", "Expect 'import' after module name")
    IN  IF module.err THEN module
        ELSE IF import.err THEN import
        ELSE Descend("import_names", <<import.st>>)

\* parse_item (class, component and server definitions are left out of the
\* model: a source that holds one ends the parse as Unmodelled)
parse_item(p) ==
    LET k == PeekKind(p)
        q == advance(p)
        some(res) == IF res.err THEN res ELSE R(res.st, Ok(Some(res.r.v)))
        function == Descend("parse_function_def", <<q>>)
        stmt == Descend("parse_statement", <<p>>)
    IN  CASE k = "Def" -> IF function.err THEN function
                          ELSE R(function.st, Ok(Some(I_FunctionDef(function.r.v))))
          [] k \in {"Class", "Component", "Server"} -> R(q, [k |-> "Unmodelled"])
          [] k = "Import" -> some(Descend("parse_import", <<q>>))
          [] k = "From" -> some(Descend("parse_from_import", <<q>>))
          [] OTHER -> IF stmt.err THEN stmt
                      ELSE IF IsSome(stmt.r.v)
                      THEN R(stmt.st, Ok(Some(I_Statement(stmt.r.v[1]))))
                      ELSE stmt

\* parse, the loop over the items: newlines between items are skipped, and a
\* token no item starts with is skipped too
RECURSIVE parse_items(_, _)
parse_items(p, items) ==
    LET item == Descend("parse_item", <<p>>)
    IN  IF is_at_end(p) THEN R(p, Ok([items |-> items]))
        ELSE IF check(p, "Newline") THEN parse_items(advance(p), items)
        ELSE IF item.err THEN item
        ELSE IF IsSome(item.r.v) THEN parse_items(item.st, Append(items, item.r.v[1]))
        ELSE parse_items(advance(item.st), items)

Descend(fn, a) ==
    CASE fn = "parse_type_annotation" -> parse_type_annotation(a[1])
      [] fn = "binary_rest" -> binary_rest(a[1], a[2], a[3])
      [] fn = "binary_levels" -> binary_levels(a[1], a[2], a[3])
      [] fn = "expression_list" -> expression_list(a[1], a[2])
      [] fn = "jsx_attributes" -> jsx_attributes(a[1], a[2])
      [] fn = "jsx_children" -> jsx_children(a[1], a[2])
      [] fn = "list_elements" -> list_elements(a[1], a[2])
      [] fn = "parse_atom" -> parse_atom(a[1])
      [] fn = "parse_binary" -> parse_binary(a[1], a[2])
      [] fn = "parse_call" -> parse_call(a[1])
      [] fn = "parse_expression" -> parse_expression(a[1])
      [] fn = "parse_jsx_element" -> parse_jsx_element(a[1])
      [] fn = "parse_postfix" -> parse_postfix(a[1])
      [] fn = "parse_unary" -> parse_unary(a[1])
      [] fn = "postfix_rest" -> postfix_rest(a[1], a[2])
      [] fn = "block_loop" -> block_loop(a[1], a[2], a[3])
      [] fn = "parse_block" -> parse_block(a[1])
      [] fn = "parse_case" -> parse_case(a[1])
      [] fn = "parse_for" -> parse_for(a[1], a[2])
      [] fn = "parse_if" -> parse_if(a[1], a[2])
      [] fn = "parse_indented_block" -> parse_indented_block(a[1], a[2])
      [] fn = "parse_match" -> parse_match(a[1], a[2])
      [] fn = "parse_render_block" -> parse_render_block(a[1], a[2])
      [] fn = "parse_statement" -> parse_statement(a[1])
      [] fn = "parse_while" -> parse_while(a[1], a[2])
      [] fn = "parse_let" -> parse_let(a[1], a[2], a[3])
      [] fn = "parse_state_decl" -> parse_state_decl(a[1], a[2])
      [] fn = "parse_pattern" -> parse_pattern(a[1])
      [] fn = "parse_params" -> parse_params(a[1], a[2], a[3])
      [] fn = "parse_function_def" -> parse_function_def(a[1])
      [] fn = "parse_import" -> parse_import(a[1])
      [] fn = "import_names" -> import_names(a[1])
      [] fn = "parse_from_import" -> parse_from_import(a[1])
      [] fn = "parse_item" -> parse_item(a[1])
      [] fn = "parse_items" -> parse_items(a[1], a[2])

\* Parser::parse
parse == Descend("parse_items", <<Parser_new, <<>>>>).r

(***************************************************************************)
(* typechecker.rs.  The checker's state is [scopes, errors]: scopes is the *)
(* stack of TypeEnv (a function from names to TypeInfo per scope, innermost *)
(* last) and errors the diagnostics in the order they were pushed.         *)
(***************************************************************************)
TI(t) == [t |-> t]
TI_List(inner) == [t |-> "List", inner |-> inner]
TI_Fn(params, ret) == [t |-> "Fn", params |-> params, ret |-> ret]
TI_Class(name) == [t |-> "Class", name |-> name]

Diagnostic(msg, arg) == [msg |-> msg, arg |-> arg]

any_fn == TI_Fn(<<TI("Unknown")>>, TI("Unknown"))
any_to_int == TI_Fn(<<TI("Unknown")>>, TI("Int"))
any_to_str == TI_Fn(<<TI("Unknown")>>, TI("Str"))
any_to_list == TI_Fn(<<TI("Unknown")>>, TI_List(TI("Unknown")))
any_to_bool == TI_Fn(<<TI("Unknown")>>, TI("Bool"))
any_to_float == TI_Fn(<<TI("Unknown")>>, TI("Float"))

\* TypeEnv::new: the global scope
TypeEnv_new ==
    <<(<<"p", "r", "i", "n", "t">> :> any_fn) @@ (<<"p", "r", "i", "n", "t", "l", "n">> :> any_fn) @@ (<<"i", "n", "p", "u", "t">> :> any_to_str) @@
      (<<"l", "e", "n">> :> any_to_int) @@ (<<"r", "a", "n", "g", "e">> :> any_to_list) @@ (<<"s", "u", "m">> :> any_to_int) @@
      (<<"s", "o", "r", "t", "e", "d">> :> any_to_list) @@ (<<"r", "e", "v", "e", "r", "s", "e", "d">> :> any_to_list) @@
      (<<"e", "n", "u", "m", "e", "r", "a", "t", "e">> :> any_to_list) @@ (<<"z", "i", "p">> :> any_to_list) @@
      (<<"s", "t", "r">> :> any_to_str) @@ (<<"i", "n", "t">> :> any_to_int) @@ (<<"f", "l", "o", "a", "t">> :> any_to_float) @@
      (<<"t", "y", "p", "e">> :> any_to_str) @@ (<<"b", "o", "o", "l">> :> any_to_bool) @@
      (<<"a", "b", "s">> :> any_to_int) @@ (<<"m", "i", "n">> :> any_to_int) @@ (<<"m", "a", "x">> :> any_to_int) @@
      (<<"f", "s", ".", "r", "e", "a", "d", "_", "f", "i", "l", "e">> :> any_to_str) @@ (<<"f", "s", ".", "w", "r", "i", "t", "e", "_", "f", "i", "l", "e">> :> any_fn) @@
      (<<"f", "s", ".", "e", "x", "i", "s", "t", "s">> :> any_to_bool) @@ (<<"f", "s", ".", "r", "e", "m", "o", "v", "e">> :> any_fn) @@
      (<<"f", "s", ".", "r", "e", "a", "d", "_", "d", "i", "r">> :> any_to_list) @@
      (<<"j", "s", "o", "n", ".", "p", "a", "r", "s", "e">> :> TI_Fn(<<TI("Str")>>, TI("Unknown"))) @@
      (<<"j", "s", "o", "n", ".", "s", "t", "r", "i", "n", "g", "i", "f", "y">> :> any_to_str) @@
      (<<"h", "t", "t", "p", ".", "g", "e", "t">> :> any_to_str) @@ (<<"h", "t", "t", "p", ".", "p", "o", "s", "t">> :> any_to_str) @@
      (<<"b", "a", "s", "e", "6", "4", ".", "e", "n", "c", "o", "d", "e">> :> any_to_str) @@ (<<"b", "a", "s", "e", "6", "4", ".", "d", "e", "c", "o", "d", "e">> :> any_to_str) @@
      (<<"s", "q", "l", "i", "t", "e", ".", "o", "p", "e", "n">> :> any_to_int) @@ (<<"s", "q", "l", "i", "t", "e", ".", "e", "x", "e", "c", "u", "t", "e">> :> any_to_int) @@
      (<<"s", "q", "l", "i", "t", "e", ".", "q", "u", "e", "r", "y">> :> any_fn) @@ (<<"s", "q", "l", "i", "t", "e", ".", "c", "l", "o", "s", "e">> :> any_fn)>>

TypeChecker_new == [scopes |-> TypeEnv_new, errors |-> <<>>]

push_scope(c) == [c EXCEPT !.scopes = Append(@, <<>>)]
pop_scope(c) == [c EXCEPT !.scopes = SubSeq(@, 1, Len(@) - 1)]
\* TypeEnv::define: into the innermost scope
TypeEnv_define(c, name, ty) ==
    IF c.scopes = <<>> THEN c
    ELSE [c EXCEPT !.scopes[Len(c.scopes)] =
              [n \in DOMAIN @ \cup {name} |-> IF n = name THEN ty ELSE @[n]]]
\* TypeEnv::lookup: innermost scope first
TypeEnv_lookup(c, name) ==
    LET holders == {i \in DOMAIN c.scopes : name \in DOMAIN c.scopes[i]}
        innermost == CHOOSE i \in holders : \A j \in holders : j <= i
    IN  IF holders = {} THEN NoneOpt ELSE Some(c.scopes[innermost][name])
push_error(c, msg, arg) == [c EXCEPT !.errors = Append(@, Diagnostic(msg, arg))]

\* an inferred type together with the checker's state after inferring it
T(c, ty) == [c |-> c, ty |-> ty]

\* infer_literal
infer_literal(lit) ==
    CASE lit.k = "Int" -> TI("Int")
      [] lit.k = "Float" -> TI("Float")
      [] lit.k = "Str" -> TI("Str")
      [] lit.k = "Bool" -> TI("Bool")
      [] lit.k = "None" -> TI("None")
      [] lit.k = "List" -> TI_List(TI("Unknown"))
      [] OTHER -> TI("Unknown")

\* infer_binary_op
infer_binary_op(op, left, right) ==
    IF op \in {"Add", "Sub", "Mul", "Div", "Mod"}
    THEN (IF left = TI("Str") /\ right = TI("Str") /\ op = "Add" THEN TI("Str")
          ELSE IF left.t \in {"Int", "Unknown"} /\ right.t \in {"Int", "Unknown"}
          THEN TI("Int")
          ELSE IF left.t = "Float" \/ right.t = "Float" THEN TI("Float")
          ELSE TI("Unknown"))
    ELSE TI("Bool")

\* types_compatible
types_compatible(expected, actual) ==
    IF expected.t = "Unknown" \/ actual.t = "Unknown" THEN TRUE ELSE expected = actual

\* ast_type_to_type_info
RECURSIVE ast_type_to_type_info(_)
ast_type_to_type_info(ty) ==
    IF ~IsSome(ty) THEN TI("Unknown")
    ELSE CASE ty[1].t \in {"Int", "Float", "Bool", "Str"} -> TI(ty[1].t)
           [] ty[1].t = "List" -> TI_List(ast_type_to_type_info(Some(ty[1].inner)))
           [] ty[1].t = "Custom" -> TI_Class(ty[1].name)
           [] OTHER -> TI("Unknown")

\* The functions of the type checker call one another through Visit, which takes the
\* name of the function called and its arguments.
RECURSIVE Visit(_, _)

\* infer_expression
RECURSIVE infer_expression(_, _)
infer_expression(expr, c) ==
    CASE expr.k = "Literal" -> T(c, infer_literal(expr.lit))
      [] expr.k = "Identifier" ->
            LET ty == TypeEnv_lookup(c, expr.name)
            IN  IF IsSome(ty) THEN T(c, ty[1])
                ELSE T(push_error(c, "Undefined variable", expr.name), TI("Error"))
      [] expr.k = "BinaryOp" ->
            LET left == infer_expression(expr.left, c)
                right == infer_expression(expr.right, left.c)
            IN  T(right.c, infer_binary_op(expr.op, left.ty, right.ty))
      [] expr.k = "UnaryOp" ->
            LET operand == infer_expression(expr.operand, c)
            IN  IF expr.op = "Neg" THEN operand ELSE T(operand.c, TI("Bool"))
      [] expr.k = "Call" ->
            LET module_fn == IF expr.func.k = "MemberAccess"
                                /\ expr.func.object.k = "Identifier"
                             THEN TypeEnv_lookup(c, expr.func.object.name \o <<".">>
                                                       \o expr.func.member)
                             ELSE NoneOpt
                func_ty == infer_expression(expr.func, c)
            IN  IF IsSome(module_fn)
                THEN T(c, IF module_fn[1].t = "Fn" THEN module_fn[1].ret ELSE TI("Unknown"))
                ELSE CASE func_ty.ty.t = "Fn" -> T(func_ty.c, func_ty.ty.ret)
                       [] func_ty.ty.t \in {"Class", "Unknown"} -> func_ty
                       [] OTHER -> T(push_error(func_ty.c, "Attempt to call non-function",
                                                func_ty.ty),
                                     TI("Error"))
      [] expr.k = "MemberAccess" -> T(infer_expression(expr.object, c).c, TI("Unknown"))
      [] expr.k = "Index" ->
            LET obj_ty == infer_expression(expr.object, c)
                index == infer_expression(expr.index, obj_ty.c)
            IN  T(index.c, IF obj_ty.ty.t = "List" THEN obj_ty.ty.inner ELSE TI("Unknown"))
      [] OTHER -> T(c, TI("Unknown"))

\* check_statement
RECURSIVE check_statements(_, _, _)
RECURSIVE check_cases(_, _, _)

\* `for s in block { self.check_statement(s) }`
check_statements(block, i, c) ==
    IF i > Len(block) THEN c ELSE check_statements(block, i + 1, Visit("check_statement", <<block[i], c>>))

\* the loop over the cases of a match: each body in a scope of its own
check_cases(cases, i, c) ==
    IF i > Len(cases) THEN c
    ELSE check_cases(cases, i + 1, pop_scope(Visit("check_statements", <<cases[i].body, 1, push_scope(c)>>)))

check_statement(stmt, c) ==
    CASE stmt.k \in {"Let", "Const", "State"} ->
            LET ty == Visit("infer_expression", <<stmt.value, c>>)
            IN  TypeEnv_define(ty.c, stmt.name, ty.ty)
      [] stmt.k = "Assignment" ->
            LET target_ty == Visit("infer_expression", <<stmt.target, c>>)
                value_ty == Visit("infer_expression", <<stmt.value, target_ty.c>>)
            IN  IF types_compatible(target_ty.ty, value_ty.ty) THEN value_ty.c
                ELSE push_error(value_ty.c, "Type mismatch in assignment",
                                <<target_ty.ty, value_ty.ty>>)
      [] stmt.k = "Return" ->
            IF IsSome(stmt.value) THEN Visit("infer_expression", <<stmt.value[1], c>>).c ELSE c
      [] stmt.k = "If" ->
            LET cond_ty == Visit("infer_expression", <<stmt.condition, c>>)
                checked == IF cond_ty.ty.t \notin {"Bool", "Unknown"}
                           THEN push_error(cond_ty.c, "If condition must be Bool", cond_ty.ty)
                           ELSE cond_ty.c
                then_c == pop_scope(Visit("check_statements", <<stmt.then_block, 1, push_scope(checked)>>))
            IN  IF IsSome(stmt.else_block)
                THEN pop_scope(Visit("check_statements", <<stmt.else_block[1], 1, push_scope(then_c)>>))
                ELSE then_c
      [] stmt.k = "While" ->
            LET cond_ty == Visit("infer_expression", <<stmt.condition, c>>)
                checked == IF cond_ty.ty.t \notin {"Bool", "Unknown"}
                           THEN push_error(cond_ty.c, "While condition must be Bool",
                                           cond_ty.ty)
                           ELSE cond_ty.c
            IN  pop_scope(Visit("check_statements", <<stmt.body, 1, push_scope(checked)>>))
      [] stmt.k = "For" ->
            LET iter_ty == Visit("infer_expression", <<stmt.iterator, c>>)
                elem_ty == IF iter_ty.ty.t = "List" THEN iter_ty.ty.inner ELSE TI("Unknown")
            IN  pop_scope(Visit("check_statements", <<stmt.body, 1,
                              TypeEnv_define(push_scope(iter_ty.c), stmt.target, elem_ty)>>))
      [] stmt.k = "Match" -> Visit("check_cases", <<stmt.cases, 1, Visit("infer_expression", <<stmt.value, c>>).c>>)
      [] stmt.k = "Expression" -> Visit("infer_expression", <<stmt.e, c>>).c
      [] stmt.k = "Render" -> Visit("check_statements", <<stmt.body, 1, c>>)
      [] OTHER -> c

\* check_function_def, `for (param, ty) in params.zip(param_types)`
RECURSIVE define_params(_, _, _)
define_params(f, i, c) ==
    IF i > Len(f.params) THEN c
    ELSE define_params(f, i + 1,
                       TypeEnv_define(c, f.params[i], ast_type_to_type_info(f.param_types[i])))

\* check_function_def
check_function_def(f, c) ==
    LET param_types == [i \in DOMAIN f.params |-> ast_type_to_type_info(f.param_types[i])]
        ret_type == ast_type_to_type_info(f.return_type)
        defined == TypeEnv_define(c, f.name, TI_Fn(param_types, ret_type))
    IN  pop_scope(Visit("check_statements", <<f.body, 1, Visit("define_params", <<f, 1, push_scope(defined)>>)>>))

\* check_item (a class definition only binds its name here: its body is
\* outside the model)
check_item(item, c) ==
    CASE item.k = "FunctionDef" -> Visit("check_function_def", <<item.f, c>>)
      [] item.k = "ClassDef" -> TypeEnv_define(c, item.name, TI_Class(item.name))
      [] item.k = "Statement" -> Visit("check_statement", <<item.stmt, c>>)
      [] OTHER -> c

\* TypeChecker::check: the diagnostics of the whole program
RECURSIVE check_items(_, _, _)
check_items(items, i, c) ==
    IF i > Len(items) THEN c ELSE check_items(items, i + 1, Visit("check_item", <<items[i], c>>))
Visit(fn, a) ==
    CASE fn = "infer_expression" -> infer_expression(a[1], a[2])
      [] fn = "check_statements" -> check_statements(a[1], a[2], a[3])
      [] fn = "check_cases" -> check_cases(a[1], a[2], a[3])
      [] fn = "check_statement" -> check_statement(a[1], a[2])
      [] fn = "define_params" -> define_params(a[1], a[2], a[3])
      [] fn = "check_function_def" -> check_function_def(a[1], a[2])
      [] fn = "check_item" -> check_item(a[1], a[2])
      [] fn = "check_items" -> check_items(a[1], a[2], a[3])

TypeChecker_check(prog) == Visit("check_items", <<prog.items, 1, TypeChecker_new>>).errors

(***************************************************************************)
(* main.rs: the command line.  `n7tya <file.n7t>` (command "file") is      *)
(* run_file: lex, parse, type-check, run.  `n7tya check <file>` (command   *)
(* "check") is check_file: lex, parse, type-check.  `n7tya test` (command  *)
(* "test") is run_tests, followed here for one test file: lex, parse, run. *)
(* Each stage is one step; the run goes on item by item, as above.         *)
(***************************************************************************)
\* `let tokens = lexer.tokenize()`
Tokenize ==
    /\ phase = "lex"
    /\ tokens' = tokenize(source)
    /\ phase' = "parse"
    /\ UNCHANGED <<command, source, parsed, diagnostics, program, pc, interp, result,
                   outcome, overflow_checks, listener>>

\* `match parser.parse()`: a parse error is printed and nothing else happens
Parse ==
    /\ phase = "parse"
    /\ LET r == IF \E i \in DOMAIN tokens : tokens[i].token.k = "Unmodelled"
                THEN [k |-> "Unmodelled"]
                ELSE parse
       IN  /\ parsed' = Some(r.k)
           /\ IF r.k = "Ok"
              THEN /\ program' = r.v
                   /\ phase' = IF command = "test" THEN "run" ELSE "check"
                   /\ UNCHANGED outcome
              ELSE /\ outcome' = Some(r)
                   /\ phase' = "done"
                   /\ UNCHANGED program
    /\ UNCHANGED <<command, source, tokens, diagnostics, pc, interp, result,
                   overflow_checks, listener>>

\* `match checker.check(&program)`: run_file prints the diagnostics and
\* returns when there are any; check_file only prints
Check ==
    /\ phase = "check"
    /\ diagnostics' = TypeChecker_check(program)
    /\ IF command = "check"
       THEN /\ phase' = "done"
            /\ outcome' = Some([k |-> "Checked"])
       ELSE IF diagnostics' # <<>>
       THEN /\ phase' = "done"
            /\ outcome' = Some([k |-> "TypeErrors"])
       ELSE /\ phase' = "run"
            /\ UNCHANGED outcome
    /\ UNCHANGED <<command, source, tokens, parsed, program, pc, interp, result,
                   overflow_checks, listener>>

\* Source files.
Src_closure ==
    <<"d", "e", "f", " ", "m", "a", "k", "e", "\n", "\t", "l", "e", "t", " ", "n", " ", "=", " ", "1", "0", "\n", "\t", "d", "e", "f", " ", "i", "n", "n", "e", "r", "\n", "\t", "\t", "r", "e", "t", "u", "r", "n", " ", "n", "\n", "\t", "r", "e", "t", "u", "r", "n", " ", "i", "n", "n", "e", "r", "\n", "l", "e", "t", " ", "f", " ", "=", " ", "m", "a", "k", "e", "(", ")", "\n", "l", "e", "t", " ", "r", " ", "=", " ", "f", "(", ")", "\n">>
Src_closure_parens ==
    <<"d", "e", "f", " ", "m", "a", "k", "e", "(", ")", "\n", "\t", "l", "e", "t", " ", "n", " ", "=", " ", "1", "0", "\n", "\t", "d", "e", "f", " ", "i", "n", "n", "e", "r", "(", ")", "\n", "\t", "\t", "r", "e", "t", "u", "r", "n", " ", "n", "\n", "\t", "r", "e", "t", "u", "r", "n", " ", "i", "n", "n", "e", "r", "\n", "l", "e", "t", " ", "f", " ", "=", " ", "m", "a", "k", "e", "(", ")", "\n", "l", "e", "t", " ", "r", " ", "=", " ", "f", "(", ")", "\n">>
Src_counter == <<"l", "e", "t", " ", "x", " ", "=", " ", "1", "\n", "x", " ", "=", " ", "x", " ", "+", " ", "1", "\n", "p", "r", "i", "n", "t", "(", "x", ")", "\n">>
Src_undefined == <<"p", "r", "i", "n", "t", "(", "y", ")", "\n", "p", "r", "i", "n", "t", "(", "1", ")", "\n">>
Src_int_condition == <<"l", "e", "t", " ", "x", " ", "=", " ", "1", "\n", "i", "f", " ", "x", "\n", "\t", "p", "r", "i", "n", "t", "(", "x", ")", "\n", "p", "r", "i", "n", "t", "(", "2", ")", "\n">>
Src_assign_unbound == <<"y", " ", "=", " ", "2", "\n", "p", "r", "i", "n", "t", "(", "y", ")", "\n">>
Src_call_int == <<"l", "e", "t", " ", "x", " ", "=", " ", "1", "\n", "l", "e", "t", " ", "y", " ", "=", " ", "x", "(", ")", "\n">>
Src_alias == <<"l", "e", "t", " ", "a", " ", "=", " ", "[", "1", "]", "\n", "l", "e", "t", " ", "b", " ", "=", " ", "a", "\n", "a", ".", "a", "p", "p", "e", "n", "d", "(", "2", ")", "\n", "l", "e", "t", " ", "n", " ", "=", " ", "l", "e", "n", "(", "b", ")", "\n", "p", "r", "i", "n", "t", "(", "n", ")", "\n">>
Src_div_zero == <<"p", "r", "i", "n", "t", "(", "1", ")", "\n", "l", "e", "t", " ", "x", " ", "=", " ", "5", " ", "/", " ", "0", "\n", "p", "r", "i", "n", "t", "(", "2", ")", "\n">>
Src_return == <<"r", "e", "t", "u", "r", "n", " ", "1", "\n", "p", "r", "i", "n", "t", "(", "2", ")", "\n">>
Src_unclosed == <<"l", "e", "t", " ", "x", " ", "=", " ", "(", "1", "\n", "p", "r", "i", "n", "t", "(", "x", ")", "\n">>
Src_while == <<"l", "e", "t", " ", "i", " ", "=", " ", "0", "\n", "w", "h", "i", "l", "e", " ", "t", "r", "u", "e", "\n", "\t", "i", " ", "=", " ", "i", " ", "+", " ", "1", "\n", "\t", "i", "f", " ", "i", " ", "=", "=", " ", "2", "\n", "\t", "\t", "b", "r", "e", "a", "k", "\n", "p", "r", "i", "n", "t", "(", "i", ")", "\n">>
Src_for == <<"f", "o", "r", " ", "i", " ", "i", "n", " ", "[", "0", ",", " ", "1", ",", " ", "2", "]", "\n", " ", " ", " ", " ", "i", "f", " ", "i", " ", "=", "=", " ", "1", "\n", " ", " ", " ", " ", " ", " ", " ", " ", "c", "o", "n", "t", "i", "n", "u", "e", "\n", " ", " ", " ", " ", "p", "r", "i", "n", "t", "(", "i", ")", "\n">>
Src_match == <<"l", "e", "t", " ", "x", " ", "=", " ", "2", "\n", "m", "a", "t", "c", "h", " ", "x", "\n", "\t", "c", "a", "s", "e", " ", "1", "\n", "\t", "\t", "x", " ", "=", " ", "1", "\n", "\t", "c", "a", "s", "e", " ", "_", "\n", "\t", "\t", "x", " ", "=", " ", "0", "\n", "p", "r", "i", "n", "t", "(", "x", ")", "\n">>
Src_match_binding == <<"l", "e", "t", " ", "x", " ", "=", " ", "0", "\n", "m", "a", "t", "c", "h", " ", "2", "\n", "\t", "c", "a", "s", "e", " ", "y", "\n", "\t", "\t", "x", " ", "=", " ", "y", "\n", "p", "r", "i", "n", "t", "(", "x", ")", "\n">>
Src_typed_def == <<"#", " ", "a", "d", "d", "\n", "d", "e", "f", " ", "a", "d", "d", " ", "a", ":", " ", "I", "n", "t", ",", " ", "b", ":", " ", "I", "n", "t", " ", "-", ">", " ", "I", "n", "t", "\n", "\t", "r", "e", "t", "u", "r", "n", " ", "a", " ", "+", " ", "b", "\n", "l", "e", "t", " ", "s", " ", "=", " ", "a", "d", "d", "(", "1", ",", " ", "2", ")", "\n", "p", "r", "i", "n", "t", "(", "s", ")", "\n">>
Src_command_call == <<"d", "e", "f", " ", "s", "h", "o", "w", " ", "v", "\n", "\t", "p", "r", "i", "n", "t", "(", "v", ")", "\n", "s", "h", "o", "w", " ", "3", "\n">>
Src_big_literal == <<"l", "e", "t", " ", "n", " ", "=", " ", "9", "9", "9", "9", "9", "\n", "p", "r", "i", "n", "t", "(", "n", ")", "\n">>
Src_markup == <<"l", "e", "t", " ", "y", " ", "=", " ", "<", "a", " ", "h", "r", "e", "f", "=", "\"", "x", "\"", ">", "h", "i", "<", "/", "a", ">", "\n", "p", "r", "i", "n", "t", "(", "1", ")", "\n">>
Src_import == <<"i", "m", "p", "o", "r", "t", " ", "f", "s", "\n", "f", "r", "o", "m", " ", "j", "s", "o", "n", " ", "i", "m", "p", "o", "r", "t", " ", "p", "a", "r", "s", "e", ",", " ", "s", "t", "r", "i", "n", "g", "i", "f", "y", "\n", "p", "r", "i", "n", "t", "(", "1", ")", "\n">>
Src_blank_line == <<"d", "e", "f", " ", "f", "\n", "\t", "l", "e", "t", " ", "a", " ", "=", " ", "1", "\n", "\n", "\t", "r", "e", "t", "u", "r", "n", " ", "a", "\n", "l", "e", "t", " ", "r", " ", "=", " ", "f", "(", ")", "\n">>
Src_nested_else == <<"d", "e", "f", " ", "f", " ", "v", "\n", "\t", "i", "f", " ", "v", "\n", "\t", "\t", "r", "e", "t", "u", "r", "n", " ", "1", "\n", "\t", "e", "l", "s", "e", "\n", "\t", "\t", "r", "e", "t", "u", "r", "n", " ", "2", "\n", "\t", "r", "e", "t", "u", "r", "n", " ", "3", "\n", "l", "e", "t", " ", "r", " ", "=", " ", "f", "(", "f", "a", "l", "s", "e", ")", "\n">>
Src_unclosed_statement == <<"(", "1", " ", "+", " ", "2", "\n", "p", "r", "i", "n", "t", "(", "3", ")", "\n">>
Src_index == <<"l", "e", "t", " ", "x", "s", " ", "=", " ", "[", "5", ",", " ", "6", "]", "\n", "l", "e", "t", " ", "r", " ", "=", " ", "x", "s", "[", "0", "]", "\n", "p", "r", "i", "n", "t", "(", "r", ")", "\n">>
Src_let_in_if == <<"i", "f", " ", "t", "r", "u", "e", "\n", "\t", "l", "e", "t", " ", "a", " ", "=", " ", "1", "\n", "l", "e", "t", " ", "r", " ", "=", " ", "a", "\n">>

Sources ==
    {Src_closure, Src_closure_parens, Src_counter, Src_undefined, Src_int_condition,
     Src_assign_unbound, Src_call_int, Src_alias, Src_div_zero, Src_return, Src_unclosed,
     Src_while, Src_for, Src_match, Src_match_binding, Src_typed_def, Src_command_call,
     Src_big_literal, Src_markup, Src_import,
     Src_blank_line,
     Src_nested_else,
     Src_unclosed_statement,
     Src_index,
     Src_let_in_if}

Commands == {"file", "check", "test"}

Init ==
    /\ command \in Commands
    /\ phase = "lex"
    /\ source \in Sources
    /\ tokens = <<>>
    /\ parsed = NoneOpt
    /\ diagnostics = <<>>
    /\ program = [items |-> <<>>]
    /\ pc = 1
    /\ interp = Interpreter_new
    /\ result = NoneV
    /\ outcome = NoneOpt
    /\ overflow_checks \in BOOLEAN
    /\ listener = Listener_idle

Next == Tokenize \/ Parse \/ Check \/ RunItem \/ RunEnd

Spec == Init /\ [][Next]_vars

(***************************************************************************)
(* What the command line does with a source file.                          *)
(***************************************************************************)
\* The interpreter was run on the program and the run came to its end.
InterpreterRan == Finished /\ parsed = Some("Ok") /\ outcome[1].k \in {"Ok", "Err", "Panic"}

\* C2: the source `def make` / `let n = 10` / `def inner` / `return n` /
\* `return inner`, followed by `let f = make()` and `let r = f()`, lexed,
\* parsed and run from the command line: the run succeeds and r, the result
\* of calling the function make returned, is 10.
C2_NestedFunctionCapturesLocals ==
    (source = Src_closure /\ command \in {"file", "test"} /\ Finished)
        => (InterpreterRan /\ FinishedOk /\ GlobalValue(N_r) = Some(IntV(10)))

\* C7: diagnostics never gate execution.  When run_file (command "file") has
\* parsed the source and the type checker has returned one or more
\* diagnostics, the pipeline does not end without the interpreter having run
\* the program.
C7_DiagnosticsNeverGateExecution ==
    (command = "file" /\ parsed = Some("Ok") /\ diagnostics # <<>> /\ phase = "done")
        => InterpreterRan

(***************************************************************************)
(* What the parser makes of indented blocks.                               *)
(***************************************************************************)
\* The kinds of the statements of a block, in order.
Kinds(block) == [j \in DOMAIN block |-> block[j].k]

\* C12: a blank line inside an indented block does not end the block.  The
\* source `def f` / `let a = 1` / (blank line) / `return a`, followed by
\* `let r = f()`, parses to the function f whose body holds both statements,
\* the let and the return, and to the top-level statement `let r = f()`.
C12_BlankLineKeepsBlock ==
    (source = Src_blank_line /\ parsed = Some("Ok"))
        => /\ Len(program.items) = 2
           /\ program.items[1].k = "FunctionDef"
           /\ Kinds(program.items[1].f.body) = <<"Let", "Return">>
           /\ program.items[2].k = "Statement"

\* C14: an else branch is attached to its if at every nesting depth.  The
\* source `def f v` / `if v` / `return 1` / `else` / `return 2` / `return 3`
\* (the if and the else at the indentation of f's body), followed by
\* `let r = f(false)`, parses to the function f whose body is the if, with
\* an else_block holding `return 2`, and then `return 3`; `let r = f(false)`
\* is the only other item.
C14_ElseAttachedInBlock ==
    (source = Src_nested_else /\ parsed = Some("Ok"))
        => /\ Len(program.items) = 2
           /\ program.items[1].k = "FunctionDef"
           /\ Kinds(program.items[1].f.body) = <<"If", "Return">>
           /\ IsSome(program.items[1].f.body[1].else_block)
           /\ Kinds(program.items[1].f.body[1].else_block[1]) = <<"Return">>

(***************************************************************************)
(* Parse errors.                                                           *)
(***************************************************************************)
\* C21: a failed consume aborts the parse.  A source whose first line opens
\* a parenthesis that is never closed, as the value of a let (`let x = (1`)
\* or as an expression that starts a statement (`(1 + 2`), and goes on with
\* a well-formed line, does not parse: Parser.parse returns the diagnostic
\* `Expect ')' after expression` as Err and no Program.
C21_ConsumeFailureAborts ==
    (source \in {Src_unclosed, Src_unclosed_statement} /\ IsSome(parsed))
        => /\ parsed = Some("Err")
           /\ outcome = Some(Err("Expect ')' after expression"))
           /\ program = [items |-> <<>>]

(***************************************************************************)
(* Postfix forms.                                                          *)
(***************************************************************************)
\* C22: indexing is a postfix form.  The source `let xs = [5, 6]` /
\* `let r = xs[0]` / `print(r)` parses, and the value of the second let is
\* the Index expression with the object xs and the index 0.
C22_IndexIsPostfix ==
    (source = Src_index /\ IsSome(parsed))
        => /\ parsed = Some("Ok")
           /\ Len(program.items) = 3
           /\ program.items[2].k = "Statement"
           /\ program.items[2].stmt.k = "Let"
           /\ program.items[2].stmt.value = E_Index(E_Id(N_xs), E_Int(0))

(***************************************************************************)
(* The listener.                                                           *)
(***************************************************************************)
T_GET == <<"G", "E", "T">>
T_POST == <<"P", "O", "S", "T">>
T_a == <<"/", "a">>
T_b == <<"/", "b">>
T_c == <<"/", "c">>

\* The method, in capitals, and the path on the request line; none when the
\* line has fewer than two parts.
RequestLine(bytes) ==
    CASE bytes \in {Req_a, Req_open} -> Some(<<T_GET, T_a>>)
      [] bytes = Req_b -> Some(<<T_GET, T_b>>)
      [] bytes = Req_post_b -> Some(<<T_POST, T_b>>)
      [] bytes = Req_c -> Some(<<T_GET, T_c>>)
      [] OTHER -> NoneOpt

\* The method, in capitals, and the path a route of the family is declared with.
RouteLine(kind) ==
    CASE kind \in {1, 2} -> <<T_GET, T_a>>
      [] kind = 3 -> <<T_GET, T_b>>
      [] kind = 4 -> <<T_POST, T_b>>
      [] OTHER -> <<T_GET, T_c>>

\* The kinds of the routes the server of the program declares, in order
\* (the statements of route k have the ids 10 * k + 1, 10 * k + 2, ...).
Declared ==
    LET routes == program.items[2].s.body
    IN  [j \in DOMAIN routes |-> routes[j].body[1].id \div 10]

\* The first declared route that matches the request, 0 when none does.
FirstMatch(bytes) ==
    LET line == RequestLine(bytes)
        hits == {j \in DOMAIN Declared : IsSome(line) /\ RouteLine(Declared[j]) = line[1]}
    IN  IF hits = {} THEN 0 ELSE Declared[CHOOSE j \in hits : \A m \in hits : j <= m]

\* The statements a step executed.
Ran == {interp'.trace[k].id : k \in (Len(interp.trace) + 1)..Len(interp'.trace)}

\* A step of the listener that read a request.
Reads ==
    /\ phase = "serve"
    /\ Len(listener'.wire) = Len(listener.wire) + 1
    /\ IsSome(listener'.wire[Len(listener'.wire)].request)

\* C26: the listener's response mapping.  Every request read is answered by
\* one response, and the listener then waits for the next connection.  The
\* first route in declaration order whose method (in any case) and path are
\* those of the request line is the only one whose body runs; the response
\* is 200 with the stringified value the body returned (the counter for
\* route 1, hi for route 2, none for route 3), 500 with the error when the
\* body failed (the undefined name of routes 4 and 5), and 404 when no route
\* matches or the line has fewer than two parts.
C26_ResponseMapping ==
    [][Reads =>
        LET exchange == listener'.wire[Len(listener'.wire)]
            kind == FirstMatch(exchange.request[1])
            undefined(name) == ErrA("Undefined variable", name)
        IN  /\ phase' = "serve"
            /\ IsSome(exchange.response)
            /\ Ran \subseteq (10 * kind + 1)..(10 * kind + 9)
            /\ kind # 0 => Ran # {}
            /\ exchange.response[1] =
                 CASE kind = 0 -> Response("404 Not Found", T_not_found)
                   [] kind = 1 -> Response("200 OK",
                                           IntToString(Env_get(interp.scopes, 1, N_g)[1].n + 1))
                   [] kind = 2 -> Response("200 OK", T_hi)
                   [] kind = 3 -> Response("200 OK", T_none)
                   [] kind = 4 -> Response("500 Internal Server Error",
                                           [prefix |-> "Error: ", e |-> undefined(N_z)])
                   [] OTHER -> Response("500 Internal Server Error",
                                        [prefix |-> "Error: ", e |-> undefined(N_w)])
    ]_vars

\* The route a request is matched to, 0 when it is matched to none: the first
\* declared route with its method and path, but for the request whose path
\* nothing follows, which no route is matched to.
Matched(bytes) == IF bytes = Req_open THEN 0 ELSE FirstMatch(bytes)

\* The routes the exchanges so far were matched to, in order.
Served ==
    [k \in DOMAIN listener.wire |->
        IF IsSome(listener.wire[k].request) THEN Matched(listener.wire[k].request[1]) ELSE 0]

\* C27: every matched request runs its route body in a fresh child scope of
\* the global scope.  While the listener runs: the current scope is the
\* global one (no request matched yet) or a child of it holding only what
\* the last matched route itself bound (z and w for route 3, nothing for the
\* others); a request for z (route 4) or w (route 5) is answered with the
\* undefined-variable error whatever was served before it, route 3
\* included; and the global g counts the requests route 1 served, each of
\* which answered with the count.
C27_RequestScopeIsFresh ==
    listener.global_env # 0 =>
        LET last == {k \in DOMAIN Served : Served[k] # 0}
            scope == interp.scopes[interp.env]
            ones(k) == Cardinality({j \in 1..k : Served[j] = 1})
            undefined(name) == Some(Response("500 Internal Server Error",
                                             [prefix |-> "Error: ",
                                              e |-> ErrA("Undefined variable", name)]))
        IN  /\ listener.global_env = 1
            /\ IF last = {} THEN interp.env = 1
               ELSE /\ interp.env > 1
                    /\ scope.parent = 1
                    /\ DOMAIN scope.values =
                          IF Served[CHOOSE k \in last : \A j \in last : j <= k] = 3
                          THEN {N_z, N_w} ELSE {}
            /\ GlobalValue(N_g) = Some(IntV(ones(Len(Served))))
            /\ ~IsSome(GlobalValue(N_z)) /\ ~IsSome(GlobalValue(N_w))
            /\ \A k \in DOMAIN Served :
                  /\ Served[k] = 1 =>
                        listener.wire[k].response = Some(Response("200 OK", IntToString(ones(k))))
                  /\ Served[k] = 4 => listener.wire[k].response = undefined(N_z)
                  /\ Served[k] = 5 => listener.wire[k].response = undefined(N_w)

C27_Witness ==
    /\ program = ServerProgram(<<3, 4>>)
    /\ Served = <<3, 4>>
    /\ listener.wire[1].response = Some(Response("200 OK", T_OK))
    /\ listener.wire[2].response[1].status = "500 Internal Server Error"

(***************************************************************************)
(* The checker's scopes and the interpreter's.                             *)
(***************************************************************************)
\* C28: the checker's scoping agrees with the interpreter's for a name
\* declared inside a compound statement.  For `if true` / `    let a = 1` /
\* `let r = a`, where the run (made without the checker by the test
\* command) resolves a and binds r to 1, the checker reports no undefined
\* variable.
C28_CheckerScopesAgree ==
    (source = Src_let_in_if /\ phase = "done")
        => /\ \A i \in DOMAIN diagnostics : diagnostics[i].msg # "Undefined variable"
           /\ command = "test" => GlobalValue(N_r) = Some(IntV(1))

(***************************************************************************)
(* The parser's cursor.                                                    *)
(***************************************************************************)
\* The blocks of the parsed program: the top-level statements in order, the
\* function bodies, and every block nested in a statement of those.
ParsedBlocks ==
    LET top == {<<program.items[j].stmt>> :
                   j \in {n \in DOMAIN program.items : program.items[n].k = "Statement"}}
                \cup {program.items[j].f.body :
                         j \in {n \in DOMAIN program.items :
                                   program.items[n].k = "FunctionDef"}}
    IN  top \cup UNION {SubBlocks(s) : s \in UNION {AllStmts(b) : b \in top}}

\* C30: Parser::parse terminates, its cursor moving forward all the way.
\* When it has returned Ok the cursor is at the end of the tokens and the
\* tracked indentation depth is 0 again; every statement of a block started
\* at a token after the one the statement before it started at, and a block
\* started after the statement that holds it (a statement's id is the
\* position of its first token), so no pass of a loop left the cursor where
\* the pass before had found it.
C30_ParseTerminates ==
    parsed = Some("Ok") =>
        LET end == Descend("parse_items", <<Parser_new, <<>>>>).st
            stmts == UNION {AllStmts(b) : b \in ParsedBlocks}
        IN  /\ end.current = Len(tokens)
            /\ end.indent_level = 0
            /\ \A b \in ParsedBlocks : \A i \in 1..(Len(b) - 1) : b[i].id < b[i + 1].id
            /\ \A s \in stmts : \A b \in SubBlocks(s) : \A i \in DOMAIN b :
                  s.id < b[i].id /\ b[i].id <= Len(tokens)

C30_Witness ==
    /\ source = Src_while
    /\ parsed = Some("Ok")
    /\ Len(program.items) = 3
    /\ program.items[2].stmt.k = "While"
    /\ Len(program.items[2].stmt.body) = 2
    /\ program.items[2].stmt.body[2].k = "If"
    /\ Len(program.items[2].stmt.body[2].then_block) = 1

=============================================================================
